---- MODULE Spec2Model ----
(***************************************************************************)
(* Model of the Apple development MCP server: the tool-call handler of     *)
(* index.ts and the Xcode diagnostic analyzer it dispatches to.            *)
(*                                                                         *)
(* Text is modelled at the level of characters: a JavaScript string is a   *)
(* sequence of one-character strings, and the regular expressions of the   *)
(* rule table are matched by a backtracking matcher that follows the       *)
(* ECMAScript priority order (leftmost start, greedy quantifiers, first    *)
(* alternative first).  Rendered reports are sequences of pieces: the      *)
(* literal chunks of the template strings and the values spliced into      *)
(* them.  In the literal chunks a backtick is written <backtick> and an    *)
(* emoji by its code point or name.                                        *)
(***************************************************************************)
EXTENDS Integers, Sequences, FiniteSets, TLC

(***************************************************************************)
(* JavaScript values that cross the protocol boundary.                     *)
(***************************************************************************)
Undefined == [type |-> "undefined", val |-> <<>>]

JSString(chars) == [type |-> "string", val |-> chars]

IsString(v) == v.type = "string"

\* ToBoolean: undefined and the empty string are falsy
Truthy(v) == v.type = "string" /\ Len(v.val) > 0

(***************************************************************************)
(* Characters.                                                             *)
(***************************************************************************)
LowerCaseLetters ==
  <<"a","b","c","d","e","f","g","h","i","j","k","l","m","n","o","p","q","r","s","t","u","v","w","x","y","z">>

UpperCaseLetters ==
  <<"A","B","C","D","E","F","G","H","I","J","K","L","M","N","O","P","Q","R","S","T","U","V","W","X","Y","Z">>

DigitChars == {"0","1","2","3","4","5","6","7","8","9"}

LetterSet(letters) == {letters[i] : i \in 1..Len(letters)}

UpperMap ==
  [c \in LetterSet(LowerCaseLetters) |->
     UpperCaseLetters[CHOOSE i \in 1..Len(LowerCaseLetters) : LowerCaseLetters[i] = c]]

LowerMap ==
  [c \in LetterSet(UpperCaseLetters) |->
     LowerCaseLetters[CHOOSE i \in 1..Len(UpperCaseLetters) : UpperCaseLetters[i] = c]]

\* two characters outside the ASCII range whose case mapping is an ASCII
\* letter: the lower case of the Kelvin sign is k, the upper case of the long
\* s is S
KELVIN_SIGN == "<U+212A>"

LONG_S == "<U+017F>"

\* String.prototype.toLowerCase
toLowerCase(S) ==
  SubSeq([i \in 1..Len(S) |-> IF S[i] \in DOMAIN LowerMap THEN LowerMap[S[i]]
                               ELSE IF S[i] = KELVIN_SIGN THEN "k" ELSE S[i]],
         1, Len(S))

\* String.prototype.toUpperCase
toUpperCase(S) ==
  SubSeq([i \in 1..Len(S) |-> IF S[i] \in DOMAIN UpperMap THEN UpperMap[S[i]]
                               ELSE IF S[i] = LONG_S THEN "S" ELSE S[i]],
         1, Len(S))

\* Canonicalize of the ECMAScript pattern semantics for /i without /u:
\* a character is compared by its upper-case form, except that a character
\* outside the ASCII range whose upper-case form is inside it is kept
Canonicalize(c) == IF c \in DOMAIN UpperMap THEN UpperMap[c] ELSE c

CanonicalizeAll(S) == SubSeq([i \in 1..Len(S) |-> Canonicalize(S[i])], 1, Len(S))

\* \w
WordChars ==
  LetterSet(LowerCaseLetters) \cup LetterSet(UpperCaseLetters) \cup DigitChars \cup {"_"}

\* . matches everything but a line terminator
LineTerminators == {"\n", "\r"}

InClass(cls, c) ==
  IF cls = "w" THEN c \in WordChars ELSE c \notin LineTerminators

Min(s) == CHOOSE x \in s : \A y \in s : x <= y

Max(s) == CHOOSE x \in s : \A y \in s : x >= y

(***************************************************************************)
(* Regular expressions.  A pattern is a sequence of alternatives (the      *)
(* top-level |), an alternative a sequence of nodes.                       *)
(***************************************************************************)
RxLit(s) == [t |-> "lit", s |-> s]

\* (\w+) and (.+): one or more characters of a class, greedy
RxPlus(cls) == [t |-> "plus", cls |-> cls]

\* x?: an optional literal, greedy
RxOpt(s) == [t |-> "opt", s |-> s]

\* (a|b): a group of literal alternatives
RxAlt(opts) == [t |-> "alt", opts |-> opts]

RegExp(alts, flags) == [alts |-> alts, flags |-> flags]

\* does literal lit stand at position i of U (1-based); U is the text the
\* literals are compared with: the canonicalized text under the i flag
LitAt(lit, U, i, ic) ==
  /\ i + Len(lit) - 1 <= Len(U)
  /\ \A j \in 1..Len(lit) :
       U[i + j - 1] = (IF ic THEN Canonicalize(lit[j]) ELSE lit[j])

\* number of consecutive characters of class cls from position i on
RunLength(cls, S, i) ==
  LET stops == {j \in i..Len(S) : ~InClass(cls, S[j])}
  IN  (IF stops = {} THEN Len(S) + 1 ELSE Min(stops)) - i

\* tries holds, for every choice the engine can make at a choice point (a
\* repetition count, an alternative), the pair of the choice and the end of
\* the match it leads to, 0 if it leads to none.  The engine takes its
\* choices in order, the largest first for a greedy quantifier, the smallest
\* first for alternatives, and keeps the first that leads to a match.
FirstEnd(tries, largestFirst) ==
  LET ok == {t \in tries : t[2] # 0}
  IN  IF ok = {} THEN 0
      ELSE (CHOOSE t \in ok :
              \A u \in ok : IF largestFirst THEN u[1] <= t[1] ELSE t[1] <= u[1])[2]

\* The backtracking matcher: the position after the match of nodes[k..]
\* at position i that the engine finds first, or 0 when there is none.
RECURSIVE MatchNodes(_, _, _, _, _, _)
MatchNodes(nodes, k, S, U, i, ic) ==
  IF k > Len(nodes) THEN i
  ELSE
    LET n == nodes[k]
    IN CASE n.t = "lit" ->
              IF LitAt(n.s, U, i, ic)
              THEN MatchNodes(nodes, k + 1, S, U, i + Len(n.s), ic)
              ELSE 0
         [] n.t = "plus" ->
              LET run   == RunLength(n.cls, S, i)
                  tries == {<< m, MatchNodes(nodes, k + 1, S, U, i + m, ic) >> : m \in 1..run}
              IN  FirstEnd(tries, TRUE)
         [] n.t = "opt" ->
              LET taken == IF LitAt(n.s, U, i, ic)
                           THEN MatchNodes(nodes, k + 1, S, U, i + Len(n.s), ic)
                           ELSE 0
              IN  IF taken # 0 THEN taken
                  ELSE MatchNodes(nodes, k + 1, S, U, i, ic)
         [] n.t = "alt" ->
              LET tries == {<< o, IF LitAt(n.opts[o], U, i, ic)
                                  THEN MatchNodes(nodes, k + 1, S, U, i + Len(n.opts[o]), ic)
                                  ELSE 0 >> : o \in 1..Len(n.opts)}
              IN  FirstEnd(tries, FALSE)

\* the whole pattern at position i: the first alternative that matches
MatchAt(rx, S, U, i, ic) ==
  FirstEnd({<< a, MatchNodes(rx.alts[a], 1, S, U, i, ic) >> : a \in 1..Len(rx.alts)}, FALSE)

\* does every alternative begin with a non-empty literal
LiteralStart(rx) ==
  \A a \in 1..Len(rx.alts) :
    /\ Len(rx.alts[a]) > 0
    /\ rx.alts[a][1].t = "lit"
    /\ Len(rx.alts[a][1].s) > 0

\* the characters such a pattern can begin with
LeadingChars(rx, ic) ==
  {IF ic THEN Canonicalize(rx.alts[a][1].s[1]) ELSE rx.alts[a][1].s[1] :
     a \in 1..Len(rx.alts)}

\* the value null of a failed match
NoMatch == [matched |-> FALSE, index |-> 0, text |-> <<>>]

\* RegExpBuiltinExec: the match array (index and element 0) and the value
\* left in the lastIndex property of the RegExp object.  Without the g
\* flag the search starts at 0 and lastIndex is neither read nor written.
\* The start positions are tried from the left; a pattern that begins with
\* a literal can only start where its first character stands.
RegExpBuiltinExec(rx, S, lastIndex) ==
  LET stateful == "g" \in rx.flags
      from     == IF stateful THEN lastIndex ELSE 0
      ic       == "i" \in rx.flags
      U        == IF ic THEN CanonicalizeAll(S) ELSE S
      leading  == LeadingChars(rx, ic)
      tries    == IF LiteralStart(rx)
                  THEN {i \in (from + 1)..Len(S) : U[i] \in leading}
                  ELSE (from + 1)..(Len(S) + 1)
      found    == {t \in {<< i, MatchAt(rx, S, U, i, ic) >> : i \in tries} : t[2] # 0}
  IN  IF found = {}
      THEN [match |-> NoMatch, lastIndex |-> IF stateful THEN 0 ELSE lastIndex]
      ELSE LET first == CHOOSE t \in found : \A u \in found : t[1] <= u[1]
           IN  [match |-> [matched |-> TRUE, index |-> first[1] - 1,
                           text |-> SubSeq(S, first[1], first[2] - 1)],
                lastIndex |-> IF stateful THEN first[2] - 1 ELSE lastIndex]

(***************************************************************************)
(* The rule table of the diagnostic analyzer.                              *)
(***************************************************************************)
\* the pattern as it would be if it took the "error: " prefix along
Pattern_TypeNotFoundWithPrefix ==
  RegExp(<<
       << RxOpt(<<"e","r","r","o","r",":"," ">>),
          RxLit(<<"c","a","n","n","o","t"," ","f","i","n","d"," ","t","y","p","e"," ","'">>),
          RxPlus("w"),
          RxLit(<<"'"," ","i","n"," ","s","c","o","p","e">>) >>
    >>, {"i"})

\* xcode-diagnostic-analyzer.ts line 27
Pattern_TypeNotFound ==
  RegExp(<<
       << RxLit(<<"c","a","n","n","o","t"," ","f","i","n","d"," ","t","y","p","e"," ","'">>),
          RxPlus("w"),
          RxLit(<<"'"," ","i","n"," ","s","c","o","p","e">>) >>
    >>, {"i"})

\* the pattern as it would be if it let the word "type" through
Pattern_SymbolNotFoundLoose ==
  RegExp(<<
       << RxLit(<<"c","a","n","n","o","t"," ","f","i","n","d"," ">>),
          RxOpt(<<"t","y","p","e"," ">>),
          RxLit(<<"'">>),
          RxPlus("w"),
          RxLit(<<"'"," ","i","n"," ","s","c","o","p","e">>) >>
    >>, {"i"})

\* xcode-diagnostic-analyzer.ts line 39
Pattern_SymbolNotFound ==
  RegExp(<<
       << RxLit(<<"c","a","n","n","o","t"," ","f","i","n","d"," ","'">>),
          RxPlus("w"),
          RxLit(<<"'"," ","i","n"," ","s","c","o","p","e">>) >>
    >>, {"i"})

\* xcode-diagnostic-analyzer.ts line 51
Pattern_MemberNotFound ==
  RegExp(<<
       << RxLit(<<"v","a","l","u","e"," ","o","f"," ","t","y","p","e"," ","'">>),
          RxPlus("dot"),
          RxLit(<<"'"," ","h","a","s"," ","n","o"," ","m","e","m","b","e","r"," ","'">>),
          RxPlus("w"),
          RxLit(<<"'">>) >>
    >>, {"i"})

\* xcode-diagnostic-analyzer.ts line 63
Pattern_TypeMismatch ==
  RegExp(<<
       << RxLit(<<"c","a","n","n","o","t"," ","c","o","n","v","e","r","t"," ","v","a","l","u","e"," ","o","f"," ","t","y","p","e"," ","'">>),
          RxPlus("dot"),
          RxLit(<<"'"," ","t","o"," ","e","x","p","e","c","t","e","d"," ","a","r","g","u","m","e","n","t"," ","t","y","p","e"," ","'">>),
          RxPlus("dot"),
          RxLit(<<"'">>) >>
    >>, {"i"})

\* xcode-diagnostic-analyzer.ts line 75
Pattern_AmbiguousReference ==
  RegExp(<<
       << RxLit(<<"a","m","b","i","g","u","o","u","s"," ","u","s","e"," ","o","f"," ","'">>),
          RxPlus("w"),
          RxLit(<<"'">>) >>
    >>, {"i"})

\* xcode-diagnostic-analyzer.ts line 87
Pattern_MissingArgument ==
  RegExp(<<
       << RxLit(<<"m","i","s","s","i","n","g"," ","a","r","g","u","m","e","n","t"," ","f","o","r"," ","p","a","r","a","m","e","t","e","r"," ","'">>),
          RxPlus("w"),
          RxLit(<<"'">>) >>
    >>, {"i"})

\* xcode-diagnostic-analyzer.ts line 98
Pattern_UnresolvedIdentifier ==
  RegExp(<<
       << RxLit(<<"u","s","e"," ","o","f"," ","u","n","r","e","s","o","l","v","e","d"," ","i","d","e","n","t","i","f","i","e","r"," ","'">>),
          RxPlus("w"),
          RxLit(<<"'">>) >>
    >>, {"i"})

\* xcode-diagnostic-analyzer.ts line 110
Pattern_ProtocolConformance ==
  RegExp(<<
       << RxLit(<<"t","y","p","e"," ","'">>),
          RxPlus("dot"),
          RxLit(<<"'"," ","d","o","e","s"," ","n","o","t"," ","c","o","n","f","o","r","m"," ","t","o"," ","p","r","o","t","o","c","o","l"," ","'">>),
          RxPlus("dot"),
          RxLit(<<"'">>) >>
    >>, {"i"})

\* xcode-diagnostic-analyzer.ts line 122
Pattern_MissingTry ==
  RegExp(<<
       << RxLit(<<"c","a","l","l"," ","c","a","n"," ","t","h","r","o","w",","," ","b","u","t"," ","i","t"," ","i","s"," ","n","o","t"," ","m","a","r","k","e","d"," ","w","i","t","h"," ","'","t","r","y","'">>) >>
    >>, {"i"})

\* xcode-diagnostic-analyzer.ts line 134
Pattern_Mutability ==
  RegExp(<<
       << RxLit(<<"c","a","n","n","o","t"," ","u","s","e"," ","m","u","t","a","t","i","n","g"," ","m","e","m","b","e","r"," ","o","n"," ","i","m","m","u","t","a","b","l","e"," ","v","a","l","u","e">>) >>
    >>, {"i"})

\* xcode-diagnostic-analyzer.ts line 146
Pattern_ActorIsolation ==
  RegExp(<<
       << RxLit(<<"a","c","t","o","r","-","i","s","o","l","a","t","e","d"," ","p","r","o","p","e","r","t","y"," ","'">>),
          RxPlus("w"),
          RxLit(<<"'"," ","c","a","n"," ","n","o","t"," ","b","e"," ">>),
          RxAlt(<<<<"m","u","t","a","t","e","d">>, <<"r","e","f","e","r","e","n","c","e","d">>>>),
          RxLit(<<" ","f","r","o","m">>) >>
    >>, {"i"})

\* xcode-diagnostic-analyzer.ts line 158
Pattern_Linker ==
  RegExp(<<
       << RxLit(<<"l","i","n","k","e","r"," ","c","o","m","m","a","n","d"," ","f","a","i","l","e","d">>) >>,
       << RxLit(<<"U","n","d","e","f","i","n","e","d"," ","s","y","m","b","o","l">>),
          RxOpt(<<"s">>),
          RxLit(<<" ","f","o","r"," ","a","r","c","h","i","t","e","c","t","u","r","e">>) >>
    >>, {"i"})

\* xcode-diagnostic-analyzer.ts line 170
Pattern_MainActor ==
  RegExp(<<
       << RxLit(<<"m","a","i","n"," ","a","c","t","o","r","-","i","s","o","l","a","t","e","d">>) >>,
       << RxLit(<<"@","M","a","i","n","A","c","t","o","r">>) >>
    >>, {"i"})

\* xcode-diagnostic-analyzer.ts line 182
Pattern_Sendable ==
  RegExp(<<
       << RxLit(<<"'","@","S","e","n","d","a","b","l","e","'"," ","c","l","o","s","u","r","e">>) >>,
       << RxLit(<<"c","a","p","t","u","r","e"," ","o","f"," ","'">>),
          RxPlus("dot"),
          RxLit(<<"'"," ","w","i","t","h"," ","n","o","n","-","s","e","n","d","a","b","l","e"," ","t","y","p","e">>) >>
    >>, {"i"})


ERROR_PATTERNS ==
  <<
    [ pattern |-> Pattern_TypeNotFound,
      type |-> "Type Not Found",
      explanation |-> "The compiler cannot find a type with this name. This usually means the type isn't imported, doesn't exist, or is misspelled.",
      fixIts |-> << "Import the module containing this type",
                  "Check for typos in the type name",
                  "Ensure the type is declared as public if it's from another module",
                  "Add the framework to your target's dependencies" >>,
      docs |-> << "https://developer.apple.com/documentation/swift/importing_modules" >> ],
    [ pattern |-> Pattern_SymbolNotFound,
      type |-> "Symbol Not Found",
      explanation |-> "The compiler cannot find a variable, function, or other symbol with this name.",
      fixIts |-> << "Check spelling of the identifier",
                  "Ensure the symbol is declared before use",
                  "Import the required module",
                  "Check access control (private/internal/public)" >>,
      docs |-> << "https://docs.swift.org/swift-book/documentation/the-swift-programming-language/accesscontrol/" >> ],
    [ pattern |-> Pattern_MemberNotFound,
      type |-> "Member Not Found",
      explanation |-> "You're trying to access a property or method that doesn't exist on this type.",
      fixIts |-> << "Check the API documentation for available members",
                  "Ensure you're using the correct type",
                  "The API might have been renamed or deprecated",
                  "Check if you need to cast to a different type" >>,
      docs |-> << "https://developer.apple.com/documentation/" >> ],
    [ pattern |-> Pattern_TypeMismatch,
      type |-> "Type Mismatch",
      explanation |-> "The types don't match - you're passing a value of one type where another type is expected.",
      fixIts |-> << "Use explicit type conversion if appropriate",
                  "Check if the API expects an optional type",
                  "Use a different initializer or method",
                  "Ensure generic type parameters match" >>,
      docs |-> << "https://docs.swift.org/swift-book/documentation/the-swift-programming-language/typecasting/" >> ],
    [ pattern |-> Pattern_AmbiguousReference,
      type |-> "Ambiguous Reference",
      explanation |-> "Multiple declarations match this name and the compiler can't determine which one to use.",
      fixIts |-> << "Add explicit type annotations",
                  "Use fully qualified names (Module.Type)",
                  "Provide more context to help type inference",
                  "Check for conflicting imports" >>,
      docs |-> << "https://docs.swift.org/swift-book/documentation/the-swift-programming-language/" >> ],
    [ pattern |-> Pattern_MissingArgument,
      type |-> "Missing Argument",
      explanation |-> "A required parameter wasn't provided when calling a function or initializer.",
      fixIts |-> << "Add the missing argument",
                  "Check if there's an overload that doesn't require this parameter",
                  "Provide a default value if creating your own function" >>,
      docs |-> << "https://docs.swift.org/swift-book/documentation/the-swift-programming-language/functions/" >> ],
    [ pattern |-> Pattern_UnresolvedIdentifier,
      type |-> "Unresolved Identifier",
      explanation |-> "The compiler doesn't recognize this identifier in the current scope.",
      fixIts |-> << "Declare the variable/constant before using it",
                  "Check for typos",
                  "Ensure proper scope (the declaration might be in a different scope)",
                  "Import required modules" >>,
      docs |-> << "https://docs.swift.org/swift-book/documentation/the-swift-programming-language/declarations/" >> ],
    [ pattern |-> Pattern_ProtocolConformance,
      type |-> "Protocol Conformance Error",
      explanation |-> "Your type declares conformance to a protocol but doesn't implement all required members.",
      fixIts |-> << "Implement all required protocol methods and properties",
                  "Check for method signature mismatches",
                  "Add missing associated types",
                  "Use protocol extension default implementations where available" >>,
      docs |-> << "https://docs.swift.org/swift-book/documentation/the-swift-programming-language/protocols/" >> ],
    [ pattern |-> Pattern_MissingTry,
      type |-> "Missing Try Keyword",
      explanation |-> "You're calling a throwing function without the 'try' keyword.",
      fixIts |-> << "Add 'try' before the throwing call",
                  "Use 'try?' for optional result (returns nil on error)",
                  "Use 'try!' if you're certain it won't throw (crashes on error)",
                  "Wrap in do-catch block" >>,
      docs |-> << "https://docs.swift.org/swift-book/documentation/the-swift-programming-language/errorhandling/" >> ],
    [ pattern |-> Pattern_Mutability,
      type |-> "Mutability Error",
      explanation |-> "You're trying to modify a value that is immutable (declared with 'let' or accessed through a non-mutating context).",
      fixIts |-> << "Change 'let' to 'var' if the value should be mutable",
                  "Mark the method as 'mutating' if in a struct",
                  "Check if you're in a computed property or closure that captures self",
                  "Use a class instead of struct if reference semantics are needed" >>,
      docs |-> << "https://docs.swift.org/swift-book/documentation/the-swift-programming-language/methods/" >> ],
    [ pattern |-> Pattern_ActorIsolation,
      type |-> "Actor Isolation Error",
      explanation |-> "You're trying to access actor-isolated state from outside the actor's context.",
      fixIts |-> << "Use 'await' to access actor-isolated members",
                  "Mark the calling function as 'async'",
                  "Use 'nonisolated' for members that don't need isolation",
                  "Consider if the member should be on a different actor" >>,
      docs |-> << "https://docs.swift.org/swift-book/documentation/the-swift-programming-language/concurrency/" >> ],
    [ pattern |-> Pattern_Linker,
      type |-> "Linker Error",
      explanation |-> "The linker couldn't find implementations for referenced symbols. This is typically a configuration issue.",
      fixIts |-> << "Ensure all required frameworks are linked in Build Phases",
                  "Check that source files are added to the correct target",
                  "Verify library search paths in Build Settings",
                  "Clean build folder (Cmd+Shift+K) and rebuild" >>,
      docs |-> << "https://developer.apple.com/documentation/xcode/configuring-a-new-target-in-your-project" >> ],
    [ pattern |-> Pattern_MainActor,
      type |-> "Main Actor Isolation",
      explanation |-> "Code must run on the main actor (main thread) for UI updates or accessing main-actor-isolated properties.",
      fixIts |-> << "Add @MainActor to the enclosing type or function",
                  "Use MainActor.run { } for isolated blocks",
                  "Use 'await MainActor.run { }' from async context",
                  "Check if the property needs main actor isolation" >>,
      docs |-> << "https://developer.apple.com/documentation/swift/mainactor" >> ],
    [ pattern |-> Pattern_Sendable,
      type |-> "Sendable Conformance Error",
      explanation |-> "A closure or type crossing concurrency boundaries must be Sendable to ensure thread safety.",
      fixIts |-> << "Make the captured type conform to Sendable",
                  "Use 'sending' parameter modifier (Swift 6)",
                  "Capture only Sendable values in the closure",
                  "Consider using an actor instead" >>,
      docs |-> << "https://docs.swift.org/swift-book/documentation/the-swift-programming-language/concurrency/" >> ]
  >>



(***************************************************************************)
(* Strings and rendered text.                                              *)
(***************************************************************************)
\* String.prototype.includes
includes(S, sub) ==
  \E i \in 1..(Len(S) - Len(sub) + 1) : \A j \in 1..Len(sub) : S[i + j - 1] = sub[j]

\* String.prototype.slice(from, to) with 0 <= from <= to
slice(S, from, to) == SubSeq(S, from + 1, IF to > Len(S) THEN Len(S) ELSE to)

\* the pieces a template string is assembled from
Str(s) == [lit |-> s]

Txt(chars) == [txt |-> chars]

Num(n) == [num |-> n]

RECURSIVE Flatten(_)
Flatten(seqs) == IF seqs = <<>> THEN <<>> ELSE Head(seqs) \o Flatten(Tail(seqs))

(***************************************************************************)
(* xcode-diagnostic-analyzer.ts                                            *)
(***************************************************************************)
Rules == 1..Len(ERROR_PATTERNS)

WARNING_WORD == <<"w","a","r","n","i","n","g">>

\* the severity as it would be without the toLowerCase
SeverityCaseSensitive(buildLog) ==
  IF includes(buildLog, WARNING_WORD) THEN "warning" ELSE "error"

\* line 214: buildLog.toLowerCase().includes("warning") ? "warning" : "error"
Severity(buildLog) ==
  IF includes(toLowerCase(buildLog), WARNING_WORD) THEN "warning" ELSE "error"

\* the match as it would be for a pattern with the g flag used through
\* exec: the search resumes at lastIndex and moves it
StringMatchGlobalExec(pattern, buildLog, lastIndex) ==
  RegExpBuiltinExec(RegExp(pattern.alts, pattern.flags \cup {"g"}), buildLog, lastIndex)

\* line 210: buildLog.match(errorDef.pattern), for a pattern without the g
\* flag: one RegExpBuiltinExec
StringMatch(pattern, buildLog, lastIndex) == RegExpBuiltinExec(pattern, buildLog, lastIndex)

\* the test as it would be if the guard were missing
MatchFoundAlways(match) == TRUE

\* line 211: if (match): null is falsy, a match array truthy
MatchFound(match) == match.matched

\* every occurrence of the pattern in S from position from on, as a search
\* with the g flag finds them one after the other
RECURSIVE Occurrences(_, _, _)
Occurrences(rx, S, from) ==
  LET exec == RegExpBuiltinExec(RegExp(rx.alts, rx.flags \cup {"g"}), S, from)
  IN  IF ~exec.match.matched \/ exec.lastIndex <= from THEN <<>>
      ELSE << exec.match.text >> \o Occurrences(rx, S, exec.lastIndex)

\* the body of the loop as it would be if it reported every occurrence
LoopBodyEveryOccurrence(r, buildLog, acc) ==
  LET errorDef == ERROR_PATTERNS[r]
      texts    == Occurrences(errorDef.pattern, buildLog, 0)
  IN  [acc EXCEPT !.diagnostics =
         @ \o [o \in 1..Len(texts) |->
                 [errorType        |-> errorDef.type,
                  severity         |-> Severity(buildLog),
                  message          |-> texts[o],
                  explanation      |-> errorDef.explanation,
                  fixItSuggestions |-> errorDef.fixIts,
                  relatedDocs      |-> errorDef.docs]]]

\* lines 210-220: the body of the loop for rule r.  acc carries the
\* diagnostics pushed so far, the lastIndex of every pattern and whether an
\* exception was thrown (reading element 0 of null is a TypeError).
LoopBody(r, buildLog, acc) ==
  LET errorDef == ERROR_PATTERNS[r]
      exec     == StringMatch(errorDef.pattern, buildLog, acc.lastIndex[r])
      match    == exec.match
      stepped  == [acc EXCEPT !.lastIndex[r] = exec.lastIndex]
  IN  IF MatchFound(match)
      THEN IF ~match.matched
           THEN [stepped EXCEPT !.threw = TRUE]
           ELSE [stepped EXCEPT !.diagnostics =
                   Append(@, [errorType        |-> errorDef.type,
                              severity         |-> Severity(buildLog),
                              message          |-> match.text,
                              explanation      |-> errorDef.explanation,
                              fixItSuggestions |-> errorDef.fixIts,
                              relatedDocs      |-> errorDef.docs])]
      ELSE stepped

\* the loop as it would be with a break after the first push
RECURSIVE ScanLoopBreak(_, _, _)
ScanLoopBreak(k, buildLog, acc) ==
  IF k > Len(ERROR_PATTERNS) \/ acc.threw \/ Len(acc.diagnostics) > 0 THEN acc
  ELSE ScanLoopBreak(k + 1, buildLog, LoopBody(k, buildLog, acc))

\* lines 209-221: for (const errorDef of ERROR_PATTERNS), from rule k on
RECURSIVE ScanLoop(_, _, _)
ScanLoop(k, buildLog, acc) ==
  IF k > Len(ERROR_PATTERNS) \/ acc.threw THEN acc
  ELSE ScanLoop(k + 1, buildLog, LoopBody(k, buildLog, acc))

SeverityEmoji(severity) ==
  IF severity = "error" THEN Str("U+1F534")
  ELSE IF severity = "warning" THEN Str("U+1F7E1") ELSE Str("U+1F535")

\* lines 241-243
ContextHeader(context) ==
  IF Truthy(context) THEN << Str("**Context:** "), Txt(context.val), Str("\n\n") >> ELSE <<>>

\* lines 248-269: the block of diagnostics[i]
DiagnosticBlock(diag, i) ==
  << Str("### "), SeverityEmoji(diag.severity), Str(" "), Num(i), Str(". "),
     Str(diag.errorType), Str("\n\n"),
     Str("**Message:**\n<backtick><backtick><backtick>\n"), Txt(diag.message), Str("\n<backtick><backtick><backtick>\n\n"),
     Str("**Explanation:**\n"), Str(diag.explanation), Str("\n\n"),
     Str("**Fix-it Suggestions:**\n") >>
  \o Flatten([f \in 1..Len(diag.fixItSuggestions) |->
                << Str("- "), Str(diag.fixItSuggestions[f]), Str("\n") >>])
  \o << Str("\n") >>
  \o (IF Len(diag.relatedDocs) > 0
      THEN << Str("**Related Documentation:**\n") >>
           \o Flatten([d \in 1..Len(diag.relatedDocs) |->
                         << Str("- ["), Str(diag.relatedDocs[d]), Str("]("),
                            Str(diag.relatedDocs[d]), Str(")\n") >>])
           \o << Str("\n") >>
      ELSE <<>>)
  \o << Str("---\n\n") >>

GeneralTroubleshooting ==
  << Str("## General Troubleshooting\n\n"),
     Str("1. **Clean Build:** Press <backtick>Cmd+Shift+K<backtick> to clean the build folder\n"),
     Str("2. **Derived Data:** Delete <backtick>~/Library/Developer/Xcode/DerivedData<backtick>\n"),
     Str("3. **SPM Cache:** Reset package caches via <backtick>File > Packages > Reset Package Caches<backtick>\n"),
     Str("4. **Restart Xcode:** Sometimes a fresh start helps\n"),
     Str("5. **Check Swift Version:** Ensure your Swift version matches the code requirements\n") >>

\* the report as it would be with the blocks numbered from 0
formatDiagnosticsFromZero(diagnostics, originalLog, context) ==
  << Str("# Xcode Build Diagnostic Analysis\n\n") >>
  \o ContextHeader(context)
  \o << Str("## Found "), Num(Len(diagnostics)), Str(" Issue(s)\n\n") >>
  \o Flatten([i \in 1..Len(diagnostics) |-> DiagnosticBlock(diagnostics[i], i - 1)])
  \o GeneralTroubleshooting

\* lines 233-281
formatDiagnostics(diagnostics, originalLog, context) ==
  << Str("# Xcode Build Diagnostic Analysis\n\n") >>
  \o ContextHeader(context)
  \o << Str("## Found "), Num(Len(diagnostics)), Str(" Issue(s)\n\n") >>
  \o Flatten([i \in 1..Len(diagnostics) |-> DiagnosticBlock(diagnostics[i], i)])
  \o GeneralTroubleshooting

\* the marker as it would be without the i flag
ErrorMarkerCaseSensitive == RegExp(<< << RxLit(<<"e","r","r","o","r",":">>) >> >>, {})

\* line 290
ERROR_MARKER == RegExp(<< << RxLit(<<"e","r","r","o","r",":">>) >> >>, {"i"})

WARNING_MARKER == RegExp(<< << RxLit(<<"w","a","r","n","i","n","g",":">>) >> >>, {"i"})

\* RegExp.prototype.test on a regular expression literal evaluated for this
\* call: a fresh object, lastIndex 0
test(rx, S) == RegExpBuiltinExec(rx, S, 0).match.matched

SLICE_LIMIT == 2000

\* the excerpt as it would be with >= for >
RawLogInclusive(buildLog) ==
  << Str("**Raw Log:**\n<backtick><backtick><backtick>\n"), Txt(slice(buildLog, 0, SLICE_LIMIT)) >>
  \o (IF Len(buildLog) >= SLICE_LIMIT THEN << Str("\n...(truncated)") >> ELSE <<>>)
  \o << Str("\n<backtick><backtick><backtick>\n\n") >>

\* line 298
RawLog(buildLog) ==
  << Str("**Raw Log:**\n<backtick><backtick><backtick>\n"), Txt(slice(buildLog, 0, SLICE_LIMIT)) >>
  \o (IF Len(buildLog) > SLICE_LIMIT THEN << Str("\n...(truncated)") >> ELSE <<>>)
  \o << Str("\n<backtick><backtick><backtick>\n\n") >>

SuggestionsAndCauses ==
  << Str("## Suggestions\n\n"),
     Str("1. **Check the full error message** in Xcode's Issue Navigator (Cmd+5)\n"),
     Str("2. **Click on the error** to navigate to the problematic code\n"),
     Str("3. **Read Xcode's Fix-it suggestions** (click the red/yellow indicator)\n"),
     Str("4. **Search the error message** on developer.apple.com or forums\n\n"),
     Str("## Common Build Failure Causes\n\n"),
     Str("- Missing import statements\n"),
     Str("- Syntax errors in Swift code\n"),
     Str("- Type mismatches\n"),
     Str("- Missing required frameworks\n"),
     Str("- Incorrect deployment target\n"),
     Str("- Code signing issues\n"),
     Str("- Swift version incompatibilities\n") >>

\* the test as it would be with the negations forgotten
NoMarkersInverted(hasError, hasWarning) == hasError \/ hasWarning

\* line 293: !hasError && !hasWarning
NoMarkers(hasError, hasWarning) == ~hasError /\ ~hasWarning

analyzeUnknownError(buildLog, context) ==
  LET hasError   == test(ERROR_MARKER, buildLog)
      hasWarning == test(WARNING_MARKER, buildLog)
  IN  << Str("# Build Log Analysis\n\n") >>
      \o (IF NoMarkers(hasError, hasWarning)
          THEN << Str("## (check mark) No Clear Errors Detected\n\n"),
                  Str("The build log doesn't contain obvious error or warning markers.\n\n") >>
          ELSE << Str("## (warning sign) Build Issues Detected\n\n") >> \o RawLog(buildLog))
      \o SuggestionsAndCauses

\* the test as it would be with the comparison turned around
NoneMatchedNever(diagnostics) == Len(diagnostics) < 0

\* line 224: diagnostics.length === 0
NoneMatched(diagnostics) == Len(diagnostics) = 0

\* the settled promise of an async function
Fulfilled(value) == [status |-> "fulfilled", value |-> value]

Rejected(message) == [status |-> "rejected", value |-> << Str(message) >>]

\* analyzeBuildLog as it would be if a given errorCode selected the findings
\* of that code, which no rule carries
analyzeBuildLogFilteringByCode(buildLog, errorCode, context, lastIndex) ==
  IF ~IsString(buildLog)
  THEN [promise   |-> Rejected("Cannot read properties of undefined (reading 'split')"),
        lastIndex |-> lastIndex]
  ELSE LET scan == ScanLoop(1, buildLog.val,
                            [diagnostics |-> <<>>, lastIndex |-> lastIndex, threw |-> FALSE])
           kept == IF Truthy(errorCode) THEN <<>> ELSE scan.diagnostics
       IN  [promise |->
              IF NoneMatched(kept)
              THEN Fulfilled(analyzeUnknownError(buildLog.val, context))
              ELSE Fulfilled(formatDiagnostics(kept, buildLog.val, context)),
            lastIndex |-> scan.lastIndex]

\* analyzeBuildLog: the promise it returns and the lastIndex it leaves in
\* the patterns of the rule table.  Line 206 calls buildLog.split, a
\* TypeError when buildLog is not a string.
analyzeBuildLog(buildLog, errorCode, context, lastIndex) ==
  IF ~IsString(buildLog)
  THEN [promise   |-> Rejected("Cannot read properties of undefined (reading 'split')"),
        lastIndex |-> lastIndex]
  ELSE LET scan == ScanLoop(1, buildLog.val,
                            [diagnostics |-> <<>>, lastIndex |-> lastIndex, threw |-> FALSE])
       IN  [promise |->
              IF scan.threw
              THEN Rejected("Cannot read properties of null (reading '0')")
              ELSE IF NoneMatched(scan.diagnostics)
                   THEN Fulfilled(analyzeUnknownError(buildLog.val, context))
                   ELSE Fulfilled(formatDiagnostics(scan.diagnostics, buildLog.val, context)),
            lastIndex |-> scan.lastIndex]


(***************************************************************************)
(* swift-evolution-check.ts                                                *)
(***************************************************************************)
SWIFT_EVOLUTION_DB ==
  <<
    [ id |-> <<"S","E","-","0","4","2","3">>,
      title |-> <<"D","y","n","a","m","i","c"," ","a","c","t","o","r"," ","i","s","o","l","a","t","i","o","n"," ","e","n","f","o","r","c","e","m","e","n","t"," ","f","r","o","m"," ","n","o","n","-","s","t","r","i","c","t","-","c","o","n","c","u","r","r","e","n","c","y"," ","c","o","n","t","e","x","t","s">>,
      status |-> "implemented",
      swiftVersion |-> JSString(<<"6",".","0">>),
      summary |-> "Enforces actor isolation dynamically when called from contexts without strict concurrency checking.",
      link |-> "https://github.com/swiftlang/swift-evolution/blob/main/proposals/0423-dynamic-actor-isolation.md",
      keywords |-> << <<"a","c","t","o","r">>,
                    <<"i","s","o","l","a","t","i","o","n">>,
                    <<"c","o","n","c","u","r","r","e","n","c","y">>,
                    <<"d","y","n","a","m","i","c">> >> ],
    [ id |-> <<"S","E","-","0","4","2","0">>,
      title |-> <<"I","n","h","e","r","i","t","a","n","c","e"," ","o","f"," ","a","c","t","o","r"," ","i","s","o","l","a","t","i","o","n">>,
      status |-> "implemented",
      swiftVersion |-> JSString(<<"6",".","0">>),
      summary |-> "Allows subclasses to inherit the actor isolation of their superclass methods.",
      link |-> "https://github.com/swiftlang/swift-evolution/blob/main/proposals/0420-inheritance-of-actor-isolation.md",
      keywords |-> << <<"a","c","t","o","r">>,
                    <<"i","s","o","l","a","t","i","o","n">>,
                    <<"i","n","h","e","r","i","t","a","n","c","e">>,
                    <<"c","l","a","s","s">> >> ],
    [ id |-> <<"S","E","-","0","4","1","4">>,
      title |-> <<"R","e","g","i","o","n","-","b","a","s","e","d"," ","i","s","o","l","a","t","i","o","n">>,
      status |-> "implemented",
      swiftVersion |-> JSString(<<"6",".","0">>),
      summary |-> "Introduces region-based isolation to allow more flexible data sharing across concurrency domains.",
      link |-> "https://github.com/swiftlang/swift-evolution/blob/main/proposals/0414-region-based-isolation.md",
      keywords |-> << <<"r","e","g","i","o","n">>,
                    <<"i","s","o","l","a","t","i","o","n">>,
                    <<"s","e","n","d","a","b","l","e">>,
                    <<"c","o","n","c","u","r","r","e","n","c","y">> >> ],
    [ id |-> <<"S","E","-","0","4","1","1">>,
      title |-> <<"I","s","o","l","a","t","e","d"," ","d","e","f","a","u","l","t"," ","v","a","l","u","e"," ","e","x","p","r","e","s","s","i","o","n","s">>,
      status |-> "implemented",
      swiftVersion |-> JSString(<<"6",".","0">>),
      summary |-> "Allows default parameter values to be isolated to an actor.",
      link |-> "https://github.com/swiftlang/swift-evolution/blob/main/proposals/0411-isolated-default-values.md",
      keywords |-> << <<"d","e","f","a","u","l","t">>,
                    <<"p","a","r","a","m","e","t","e","r">>,
                    <<"a","c","t","o","r">>,
                    <<"i","s","o","l","a","t","i","o","n">> >> ],
    [ id |-> <<"S","E","-","0","4","1","2">>,
      title |-> <<"S","t","r","i","c","t"," ","c","o","n","c","u","r","r","e","n","c","y"," ","f","o","r"," ","g","l","o","b","a","l"," ","v","a","r","i","a","b","l","e","s">>,
      status |-> "implemented",
      swiftVersion |-> JSString(<<"5",".","1","0">>),
      summary |-> "Requires global and static variables to be isolated to a global actor or be Sendable.",
      link |-> "https://github.com/swiftlang/swift-evolution/blob/main/proposals/0412-strict-concurrency-for-global-variables.md",
      keywords |-> << <<"g","l","o","b","a","l">>,
                    <<"s","t","a","t","i","c">>,
                    <<"c","o","n","c","u","r","r","e","n","c","y">>,
                    <<"s","e","n","d","a","b","l","e">>,
                    <<"s","t","r","i","c","t">> >> ],
    [ id |-> <<"S","E","-","0","4","0","1">>,
      title |-> <<"R","e","m","o","v","e"," ","A","c","t","o","r"," ","I","s","o","l","a","t","i","o","n"," ","I","n","f","e","r","e","n","c","e"," ","c","a","u","s","e","d"," ","b","y"," ","P","r","o","p","e","r","t","y"," ","W","r","a","p","p","e","r","s">>,
      status |-> "implemented",
      swiftVersion |-> JSString(<<"5",".","1","0">>),
      summary |-> "Property wrappers no longer infer actor isolation on the enclosing type.",
      link |-> "https://github.com/swiftlang/swift-evolution/blob/main/proposals/0401-remove-property-wrapper-isolation.md",
      keywords |-> << <<"p","r","o","p","e","r","t","y"," ","w","r","a","p","p","e","r">>,
                    <<"a","c","t","o","r">>,
                    <<"i","s","o","l","a","t","i","o","n">>,
                    <<"i","n","f","e","r","e","n","c","e">> >> ],
    [ id |-> <<"S","E","-","0","3","9","5">>,
      title |-> <<"O","b","s","e","r","v","a","t","i","o","n">>,
      status |-> "implemented",
      swiftVersion |-> JSString(<<"5",".","9">>),
      summary |-> "Introduces the @Observable macro for automatic change tracking in classes.",
      link |-> "https://github.com/swiftlang/swift-evolution/blob/main/proposals/0395-observability.md",
      keywords |-> << <<"@","o","b","s","e","r","v","a","b","l","e">>,
                    <<"o","b","s","e","r","v","a","b","l","e">>,
                    <<"o","b","s","e","r","v","a","t","i","o","n">>,
                    <<"m","a","c","r","o">>,
                    <<"s","w","i","f","t","u","i">> >> ],
    [ id |-> <<"S","E","-","0","3","9","4">>,
      title |-> <<"P","a","c","k","a","g","e"," ","M","a","n","a","g","e","r"," ","S","u","p","p","o","r","t"," ","f","o","r"," ","C","u","s","t","o","m"," ","M","a","c","r","o","s">>,
      status |-> "implemented",
      swiftVersion |-> JSString(<<"5",".","9">>),
      summary |-> "Allows Swift packages to define and distribute custom macros.",
      link |-> "https://github.com/swiftlang/swift-evolution/blob/main/proposals/0394-swiftpm-expression-macros.md",
      keywords |-> << <<"m","a","c","r","o">>,
                    <<"p","a","c","k","a","g","e">>,
                    <<"s","p","m">>,
                    <<"s","w","i","f","t","p","m">> >> ],
    [ id |-> <<"S","E","-","0","3","9","2">>,
      title |-> <<"C","u","s","t","o","m"," ","A","c","t","o","r"," ","E","x","e","c","u","t","o","r","s">>,
      status |-> "implemented",
      swiftVersion |-> JSString(<<"5",".","9">>),
      summary |-> "Allows actors to customize their execution context.",
      link |-> "https://github.com/swiftlang/swift-evolution/blob/main/proposals/0392-custom-actor-executors.md",
      keywords |-> << <<"a","c","t","o","r">>,
                    <<"e","x","e","c","u","t","o","r">>,
                    <<"c","u","s","t","o","m">>,
                    <<"c","o","n","c","u","r","r","e","n","c","y">> >> ],
    [ id |-> <<"S","E","-","0","3","8","9">>,
      title |-> <<"A","t","t","a","c","h","e","d"," ","M","a","c","r","o","s">>,
      status |-> "implemented",
      swiftVersion |-> JSString(<<"5",".","9">>),
      summary |-> "Macros that can be attached to declarations to generate additional code.",
      link |-> "https://github.com/swiftlang/swift-evolution/blob/main/proposals/0389-attached-macros.md",
      keywords |-> << <<"m","a","c","r","o">>,
                    <<"a","t","t","a","c","h","e","d">>,
                    <<"d","e","c","l","a","r","a","t","i","o","n">>,
                    <<"c","o","d","e","g","e","n">> >> ],
    [ id |-> <<"S","E","-","0","3","8","2">>,
      title |-> <<"E","x","p","r","e","s","s","i","o","n"," ","M","a","c","r","o","s">>,
      status |-> "implemented",
      swiftVersion |-> JSString(<<"5",".","9">>),
      summary |-> "Macros that can be used in expression contexts (#stringify, etc.).",
      link |-> "https://github.com/swiftlang/swift-evolution/blob/main/proposals/0382-expression-macros.md",
      keywords |-> << <<"m","a","c","r","o">>,
                    <<"e","x","p","r","e","s","s","i","o","n">>,
                    <<"#">>,
                    <<"f","r","e","e","s","t","a","n","d","i","n","g">> >> ],
    [ id |-> <<"S","E","-","0","3","8","0">>,
      title |-> <<"i","f"," ","a","n","d"," ","s","w","i","t","c","h"," ","e","x","p","r","e","s","s","i","o","n","s">>,
      status |-> "implemented",
      swiftVersion |-> JSString(<<"5",".","9">>),
      summary |-> "Allows if and switch to be used as expressions that return values.",
      link |-> "https://github.com/swiftlang/swift-evolution/blob/main/proposals/0380-if-switch-expressions.md",
      keywords |-> << <<"i","f">>,
                    <<"s","w","i","t","c","h">>,
                    <<"e","x","p","r","e","s","s","i","o","n">>,
                    <<"r","e","t","u","r","n">> >> ],
    [ id |-> <<"S","E","-","0","3","9","3">>,
      title |-> <<"V","a","l","u","e"," ","a","n","d"," ","T","y","p","e"," ","P","a","r","a","m","e","t","e","r"," ","P","a","c","k","s">>,
      status |-> "implemented",
      swiftVersion |-> JSString(<<"5",".","9">>),
      summary |-> "Introduces variadic generics via parameter packs.",
      link |-> "https://github.com/swiftlang/swift-evolution/blob/main/proposals/0393-parameter-packs.md",
      keywords |-> << <<"p","a","r","a","m","e","t","e","r"," ","p","a","c","k">>,
                    <<"v","a","r","i","a","d","i","c">>,
                    <<"g","e","n","e","r","i","c">>,
                    <<"e","a","c","h">>,
                    <<"r","e","p","e","a","t">> >> ],
    [ id |-> <<"S","E","-","0","3","9","0">>,
      title |-> <<"N","o","n","c","o","p","y","a","b","l","e"," ","s","t","r","u","c","t","s"," ","a","n","d"," ","e","n","u","m","s">>,
      status |-> "implemented",
      swiftVersion |-> JSString(<<"5",".","9">>),
      summary |-> "Introduces ~Copyable types that cannot be implicitly copied.",
      link |-> "https://github.com/swiftlang/swift-evolution/blob/main/proposals/0390-noncopyable-structs-and-enums.md",
      keywords |-> << <<"n","o","n","c","o","p","y","a","b","l","e">>,
                    <<"~","c","o","p","y","a","b","l","e">>,
                    <<"m","o","v","e">>,
                    <<"c","o","n","s","u","m","e">>,
                    <<"o","w","n","e","r","s","h","i","p">> >> ],
    [ id |-> <<"S","E","-","0","3","5","2">>,
      title |-> <<"I","m","p","l","i","c","i","t","l","y"," ","O","p","e","n","e","d"," ","E","x","i","s","t","e","n","t","i","a","l","s">>,
      status |-> "implemented",
      swiftVersion |-> JSString(<<"5",".","7">>),
      summary |-> "Existential types (any Protocol) can be implicitly opened when passed to generic functions.",
      link |-> "https://github.com/swiftlang/swift-evolution/blob/main/proposals/0352-implicit-open-existentials.md",
      keywords |-> << <<"e","x","i","s","t","e","n","t","i","a","l">>,
                    <<"a","n","y">>,
                    <<"p","r","o","t","o","c","o","l">>,
                    <<"g","e","n","e","r","i","c">>,
                    <<"o","p","e","n">> >> ],
    [ id |-> <<"S","E","-","0","3","0","9">>,
      title |-> <<"U","n","l","o","c","k"," ","e","x","i","s","t","e","n","t","i","a","l"," ","t","y","p","e","s"," ","f","o","r"," ","a","l","l"," ","p","r","o","t","o","c","o","l","s">>,
      status |-> "implemented",
      swiftVersion |-> JSString(<<"5",".","7">>),
      summary |-> "Any protocol can now be used as an existential type with 'any'.",
      link |-> "https://github.com/swiftlang/swift-evolution/blob/main/proposals/0309-unlock-existential-types-for-all-protocols.md",
      keywords |-> << <<"e","x","i","s","t","e","n","t","i","a","l">>,
                    <<"a","n","y">>,
                    <<"p","r","o","t","o","c","o","l">>,
                    <<"s","e","l","f">>,
                    <<"a","s","s","o","c","i","a","t","e","d"," ","t","y","p","e">> >> ],
    [ id |-> <<"S","E","-","0","3","4","5">>,
      title |-> <<"i","f"," ","l","e","t"," ","s","h","o","r","t","h","a","n","d"," ","f","o","r"," ","s","h","a","d","o","w","i","n","g"," ","o","p","t","i","o","n","a","l","s">>,
      status |-> "implemented",
      swiftVersion |-> JSString(<<"5",".","7">>),
      summary |-> "Allows 'if let x' as shorthand for 'if let x = x'.",
      link |-> "https://github.com/swiftlang/swift-evolution/blob/main/proposals/0345-if-let-shorthand.md",
      keywords |-> << <<"i","f"," ","l","e","t">>,
                    <<"o","p","t","i","o","n","a","l">>,
                    <<"u","n","w","r","a","p">>,
                    <<"s","h","o","r","t","h","a","n","d">>,
                    <<"s","h","a","d","o","w">> >> ],
    [ id |-> <<"S","E","-","0","3","2","6">>,
      title |-> <<"E","n","a","b","l","e"," ","m","u","l","t","i","-","s","t","a","t","e","m","e","n","t"," ","c","l","o","s","u","r","e"," ","p","a","r","a","m","e","t","e","r","/","r","e","s","u","l","t"," ","t","y","p","e"," ","i","n","f","e","r","e","n","c","e">>,
      status |-> "implemented",
      swiftVersion |-> JSString(<<"5",".","7">>),
      summary |-> "Closures with multiple statements can now have their parameter/result types inferred.",
      link |-> "https://github.com/swiftlang/swift-evolution/blob/main/proposals/0326-extending-multi-statement-closure-type-inference.md",
      keywords |-> << <<"c","l","o","s","u","r","e">>,
                    <<"i","n","f","e","r","e","n","c","e">>,
                    <<"m","u","l","t","i","-","s","t","a","t","e","m","e","n","t">>,
                    <<"t","y","p","e">> >> ],
    [ id |-> <<"S","E","-","0","4","1","2">>,
      title |-> <<"n","o","n","i","s","o","l","a","t","e","d","(","u","n","s","a","f","e",")">>,
      status |-> "implemented",
      swiftVersion |-> JSString(<<"5",".","1","0">>),
      summary |-> "Allows opting out of actor isolation checking for specific declarations when the programmer ensures thread safety manually.",
      link |-> "https://github.com/swiftlang/swift-evolution/blob/main/proposals/0412-strict-concurrency-for-global-variables.md",
      keywords |-> << <<"n","o","n","i","s","o","l","a","t","e","d">>,
                    <<"u","n","s","a","f","e">>,
                    <<"a","c","t","o","r">>,
                    <<"i","s","o","l","a","t","i","o","n">>,
                    <<"c","o","n","c","u","r","r","e","n","c","y">>,
                    <<"g","l","o","b","a","l">> >> ],
    [ id |-> <<"S","E","-","0","4","1","3">>,
      title |-> <<"T","y","p","e","d"," ","t","h","r","o","w","s">>,
      status |-> "implemented",
      swiftVersion |-> JSString(<<"6",".","0">>),
      summary |-> "Allows functions to specify the exact error type they throw using 'throws(ErrorType)'.",
      link |-> "https://github.com/swiftlang/swift-evolution/blob/main/proposals/0413-typed-throws.md",
      keywords |-> << <<"t","h","r","o","w","s">>,
                    <<"t","y","p","e","d"," ","t","h","r","o","w","s">>,
                    <<"e","r","r","o","r">>,
                    <<"t","h","r","o","w","i","n","g">>,
                    <<"t","y","p","e","d">> >> ],
    [ id |-> <<"S","E","-","0","3","7","7">>,
      title |-> <<"b","o","r","r","o","w","i","n","g"," ","a","n","d"," ","c","o","n","s","u","m","i","n","g"," ","p","a","r","a","m","e","t","e","r"," ","o","w","n","e","r","s","h","i","p"," ","m","o","d","i","f","i","e","r","s">>,
      status |-> "implemented",
      swiftVersion |-> JSString(<<"5",".","9">>),
      summary |-> "Allows explicit control over parameter ownership with borrowing and consuming modifiers.",
      link |-> "https://github.com/swiftlang/swift-evolution/blob/main/proposals/0377-parameter-ownership-modifiers.md",
      keywords |-> << <<"b","o","r","r","o","w","i","n","g">>,
                    <<"c","o","n","s","u","m","i","n","g">>,
                    <<"o","w","n","e","r","s","h","i","p">>,
                    <<"p","a","r","a","m","e","t","e","r">>,
                    <<"m","o","v","e">> >> ]
  >>

\* a lone surrogate code unit, as JSON.parse yields it for "\ud83d"
LONE_SURROGATE == "<U+D83D>"

\* the characters encodeURIComponent leaves alone
UriUnreserved ==
  LetterSet(LowerCaseLetters) \cup LetterSet(UpperCaseLetters) \cup DigitChars
  \cup {"-", "_", ".", "!", "~", "*", "'", "(", ")"}

\* the escapes of the other ASCII characters
PercentEscapes ==
  [c \in {" ", "\"", "#", "$", "%", "&", "+", ",", "/", ":", ";", "<", "=", ">",
          "?", "@", "[", "\\", "]", "^", "<backtick>", "{", "|", "}", "\n"} |->
     CASE c = " " -> <<"%","2","0">>   [] c = "\"" -> <<"%","2","2">>
       [] c = "#" -> <<"%","2","3">>   [] c = "$" -> <<"%","2","4">>
       [] c = "%" -> <<"%","2","5">>   [] c = "&" -> <<"%","2","6">>
       [] c = "+" -> <<"%","2","B">>   [] c = "," -> <<"%","2","C">>
       [] c = "/" -> <<"%","2","F">>   [] c = ":" -> <<"%","3","A">>
       [] c = ";" -> <<"%","3","B">>   [] c = "<" -> <<"%","3","C">>
       [] c = "=" -> <<"%","3","D">>   [] c = ">" -> <<"%","3","E">>
       [] c = "?" -> <<"%","3","F">>   [] c = "@" -> <<"%","4","0">>
       [] c = "[" -> <<"%","5","B">>   [] c = "\\" -> <<"%","5","C">>
       [] c = "]" -> <<"%","5","D">>   [] c = "^" -> <<"%","5","E">>
       [] c = "<backtick>" -> <<"%","6","0">>
       [] c = "{" -> <<"%","7","B">>   [] c = "|" -> <<"%","7","C">>
       [] c = "}" -> <<"%","7","D">>   [] c = "\n" -> <<"%","0","A">>]

\* encodeURIComponent (ECMAScript Encode): unreserved characters are kept,
\* the others are escaped, and a lone surrogate throws a URIError
encodeURIComponent(S) ==
  IF \E i \in 1..Len(S) : S[i] = LONE_SURROGATE
  THEN [threw |-> TRUE, val |-> <<>>]
  ELSE [threw |-> FALSE,
        val |-> Flatten([i \in 1..Len(S) |->
                          IF S[i] \in UriUnreserved THEN << S[i] >> ELSE PercentEscapes[S[i]]])]

\* String.prototype.split(sep) for a separator of one character
RECURSIVE split(_, _)
split(S, sep) ==
  IF \A i \in 1..Len(S) : S[i] # sep THEN << S >>
  ELSE LET at == Min({i \in 1..Len(S) : S[i] = sep})
       IN  << SubSeq(S, 1, at - 1) >> \o split(SubSeq(S, at + 1, Len(S)), sep)

DigitValue ==
  [c \in DigitChars |->
     CASE c = "0" -> 0 [] c = "1" -> 1 [] c = "2" -> 2 [] c = "3" -> 3 [] c = "4" -> 4
       [] c = "5" -> 5 [] c = "6" -> 6 [] c = "7" -> 7 [] c = "8" -> 8 [] c = "9" -> 9]

NaN == [nan |-> TRUE, n |-> 0]

RECURSIVE DecimalValue(_)
DecimalValue(S) ==
  IF S = <<>> THEN 0
  ELSE 10 * DecimalValue(SubSeq(S, 1, Len(S) - 1)) + DigitValue[S[Len(S)]]

\* Number(string) for the strings made of letters, digits and dots: the
\* empty string is 0, a run of digits its decimal value, anything else NaN
Number(S) ==
  IF \A i \in 1..Len(S) : S[i] \in DigitChars
  THEN [nan |-> FALSE, n |-> DecimalValue(S)]
  ELSE NaN

\* line 472
parseVersion(v) == LET parts == split(v, ".") IN [i \in 1..Len(parts) |-> Number(parts[i])]

\* comparisons of numbers: false when either side is NaN
GreaterThan(a, b) == ~a.nan /\ ~b.nan /\ a.n > b.n

LessThan(a, b) == ~a.nan /\ ~b.nan /\ a.n < b.n

\* the comparison as it would be on the text of the versions
compareVersionsAsText(target, required) == target = required

\* lines 471-479
compareVersions(target, required) ==
  LET t == parseVersion(target)
      r == parseVersion(required)
      targetMajor == t[1]
      targetMinor == IF Len(t) >= 2 THEN t[2] ELSE [nan |-> FALSE, n |-> 0]
      reqMajor == r[1]
      reqMinor == IF Len(r) >= 2 THEN r[2] ELSE [nan |-> FALSE, n |-> 0]
  IN  IF GreaterThan(targetMajor, reqMajor) THEN TRUE
      ELSE IF LessThan(targetMajor, reqMajor) THEN FALSE
      ELSE ~targetMinor.nan /\ ~reqMinor.nan /\ targetMinor.n >= reqMinor.n

\* lines 455-466
getStatusEmoji(status) ==
  CASE status = "implemented"   -> Str("(check mark)")
    [] status = "accepted"      -> Str("U+1F7E2")
    [] status = "active-review" -> Str("U+1F535")
    [] status = "scheduled"     -> Str("U+1F4C5")
    [] status = "returned"      -> Str("U+1F519")
    [] status = "rejected"      -> Str("(cross mark)")
    [] status = "withdrawn"     -> Str("(left arrow)")
    [] OTHER                    -> Str("(question mark)")

\* Array.prototype.includes
arrayIncludes(array, x) == \E k \in 1..Len(array) : array[k] = x

\* the Swift code of one of the six usage examples, a literal of the source
Code(name) == [code |-> name]

\* lines 312-450
generateUsageExample(proposal) ==
  LET kws == proposal.keywords
      example(name) == << Str("**Usage Example:**\n\n"),
                          Str("<backtick><backtick><backtick>swift\n"), Code(name),
                          Str("<backtick><backtick><backtick>\n\n") >>
  IN  IF arrayIncludes(kws, <<"@","o","b","s","e","r","v","a","b","l","e">>) THEN example("@Observable")
      ELSE IF arrayIncludes(kws, <<"n","o","n","i","s","o","l","a","t","e","d">>) THEN example("nonisolated(unsafe)")
      ELSE IF arrayIncludes(kws, <<"t","y","p","e","d"," ","t","h","r","o","w","s">>) THEN example("typed throws")
      ELSE IF arrayIncludes(kws, <<"p","a","r","a","m","e","t","e","r"," ","p","a","c","k">>) THEN example("parameter packs")
      ELSE IF arrayIncludes(kws, <<"i","f">>) /\ arrayIncludes(kws, <<"e","x","p","r","e","s","s","i","o","n">>)
           THEN example("if/switch expressions")
      ELSE IF arrayIncludes(kws, <<"n","o","n","c","o","p","y","a","b","l","e">>) THEN example("noncopyable")
      ELSE <<>>

\* lines 285-293
Compatibility(proposal, swiftVersion) ==
  IF Truthy(swiftVersion) /\ Truthy(proposal.swiftVersion)
  THEN IF compareVersions(swiftVersion.val, proposal.swiftVersion.val)
       THEN << Str("(check mark) **Available in Swift "), Txt(swiftVersion.val), Str("**\n\n") >>
       ELSE << Str("(warning sign) **Requires Swift "), Txt(proposal.swiftVersion.val),
               Str("** (you specified "), Txt(swiftVersion.val), Str(")\n\n") >>
  ELSE <<>>

\* lines 274-298: the block of one proposal
ProposalBlock(proposal, swiftVersion) ==
  << Str("### "), getStatusEmoji(proposal.status), Str(" "), Txt(proposal.id), Str(": "),
     Txt(proposal.title), Str("\n\n"),
     Str("| Property | Value |\n"),
     Str("|----------|-------|\n"),
     Str("| **Status** | "), Str(proposal.status), Str(" |\n"),
     Str("| **Swift Version** | "),
     (IF Truthy(proposal.swiftVersion) THEN Txt(proposal.swiftVersion.val) ELSE Str("N/A")),
     Str(" |\n"),
     Str("| **Proposal** | ["), Txt(proposal.id), Str("]("), Str(proposal.link), Str(") |\n\n"),
     Str("**Summary:**\n"), Str(proposal.summary), Str("\n\n") >>
  \o Compatibility(proposal, swiftVersion)
  \o generateUsageExample(proposal)
  \o << Str("---\n\n") >>

\* lines 260-307
formatMatches(matches, feature, swiftVersion) ==
  << Str("# Swift Evolution: \""), Txt(feature), Str("\"\n\n") >>
  \o (IF Truthy(swiftVersion)
      THEN << Str("**Target Swift Version:** "), Txt(swiftVersion.val), Str("\n\n") >>
      ELSE <<>>)
  \o << Str("## Found "), Num(Len(matches)), Str(" Related Proposal(s)\n\n") >>
  \o Flatten([m \in 1..Len(matches) |-> ProposalBlock(matches[m], swiftVersion)])
  \o << Str("## Resources\n\n"),
        Str("- [Swift Evolution Dashboard](https://apple.github.io/swift-evolution/)\n"),
        Str("- [Swift Evolution Proposals](https://github.com/swiftlang/swift-evolution/tree/main/proposals)\n"),
        Str("- [Swift.org](https://www.swift.org/)\n") >>

\* lines 484-509: the text, or the URIError of encodeURIComponent
formatNoMatch(feature, swiftVersion) ==
  LET encoded == encodeURIComponent(feature)
  IN  IF encoded.threw THEN [threw |-> TRUE, text |-> << Str("URI malformed") >>]
      ELSE [threw |-> FALSE,
            text |->
              << Str("# Swift Evolution: \""), Txt(feature), Str("\"\n\n"),
                 Str("## (question mark) No Exact Match Found\n\n"),
                 Str("The feature \""), Txt(feature),
                 Str("\" wasn't found in the local Swift Evolution database.\n\n"),
                 Str("## Suggestions\n\n"),
                 Str("1. **Search Swift Evolution directly:**\n"),
                 Str("   [apple.github.io/swift-evolution](https://apple.github.io/swift-evolution/?search="),
                 Txt(encoded.val), Str(")\n\n"),
                 Str("2. **Check the GitHub proposals:**\n"),
                 Str("   [github.com/swiftlang/swift-evolution](https://github.com/swiftlang/swift-evolution/tree/main/proposals)\n\n"),
                 Str("3. **Search Swift Forums:**\n"),
                 Str("   [forums.swift.org](https://forums.swift.org/search?q="),
                 Txt(encoded.val), Str(")\n\n"),
                 Str("## Available Features in Database\n\n"),
                 Str("Some features I can check:\n"),
                 Str("- <backtick>@Observable<backtick> macro\n"),
                 Str("- <backtick>nonisolated(unsafe)<backtick>\n"),
                 Str("- Typed throws\n"),
                 Str("- Parameter packs\n"),
                 Str("- if/switch expressions\n"),
                 Str("- Noncopyable types\n"),
                 Str("- Actor isolation\n"),
                 Str("- Macros\n") >>]

\* the feature as it would be compared without lower-casing it
normalizeFeatureKeepingCase(feature) == feature

\* line 231
normalizeFeature(feature) == toLowerCase(feature)

\* the keyword test as it would be in one direction only
keywordMatchFeatureHoldsKeyword(proposal, normalizedFeature) ==
  \E k \in 1..Len(proposal.keywords) :
    includes(normalizedFeature, toLowerCase(proposal.keywords[k]))

\* lines 236-239, with the keyword already lower-cased
keywordMatch(proposal, normalizedFeature) ==
  \E k \in 1..Len(proposal.keywords) :
    LET kw == toLowerCase(proposal.keywords[k])
    IN  includes(normalizedFeature, kw) \/ includes(kw, normalizedFeature)

\* line 242
titleMatch(proposal, normalizedFeature) ==
  includes(toLowerCase(proposal.title), normalizedFeature)

\* line 245
idMatch(proposal, normalizedFeature) == toLowerCase(proposal.id) = normalizedFeature

\* the filter as it would be if it kept only the first hit
filterProposalsFirstOnly(normalizedFeature) ==
  LET all == SelectSeq(SWIFT_EVOLUTION_DB,
                       LAMBDA proposal : \/ keywordMatch(proposal, normalizedFeature)
                                         \/ titleMatch(proposal, normalizedFeature)
                                         \/ idMatch(proposal, normalizedFeature))
  IN  SubSeq(all, 1, Min({1, Len(all)}))

\* lines 234-248
filterProposals(normalizedFeature) ==
  SelectSeq(SWIFT_EVOLUTION_DB,
            LAMBDA proposal : \/ keywordMatch(proposal, normalizedFeature)
                              \/ titleMatch(proposal, normalizedFeature)
                              \/ idMatch(proposal, normalizedFeature))

\* lines 227-255: the promise checkSwiftEvolution returns.  Line 231 calls
\* feature.toLowerCase, a TypeError when feature is not a string.
checkSwiftEvolution(feature, swiftVersion) ==
  IF ~IsString(feature)
  THEN Rejected("Cannot read properties of undefined (reading 'toLowerCase')")
  ELSE LET matches == filterProposals(normalizeFeature(feature.val))
       IN  IF Len(matches) = 0
           THEN LET noMatch == formatNoMatch(feature.val, swiftVersion)
                IN  IF noMatch.threw
                    THEN [status |-> "rejected", value |-> noMatch.text]
                    ELSE Fulfilled(noMatch.text)
           ELSE Fulfilled(formatMatches(matches, feature.val, swiftVersion))


(***************************************************************************)
(* fetch-apple-docs.ts                                                     *)
(***************************************************************************)
Null == [type |-> "null", val |-> <<>>]

\* line 39
APPLE_DOCS_API == <<"h","t","t","p","s",":","/","/","d","e","v","e","l","o","p","e","r",".","a","p","p","l","e",".","c","o","m","/","t","u","t","o","r","i","a","l","s","/","d","a","t","a","/","d","o","c","u","m","e","n","t","a","t","i","o","n">>

FRAMEWORK_PATHS ==
  <<
    [ key |-> <<"s","w","i","f","t","u","i">>,
      paths |-> << <<"s","w","i","f","t","u","i">> >> ],
    [ key |-> <<"u","i","k","i","t">>,
      paths |-> << <<"u","i","k","i","t">> >> ],
    [ key |-> <<"f","o","u","n","d","a","t","i","o","n">>,
      paths |-> << <<"f","o","u","n","d","a","t","i","o","n">> >> ],
    [ key |-> <<"o","b","s","e","r","v","a","t","i","o","n">>,
      paths |-> << <<"o","b","s","e","r","v","a","t","i","o","n">> >> ],
    [ key |-> <<"s","w","i","f","t","d","a","t","a">>,
      paths |-> << <<"s","w","i","f","t","d","a","t","a">> >> ],
    [ key |-> <<"c","o","m","b","i","n","e">>,
      paths |-> << <<"c","o","m","b","i","n","e">> >> ],
    [ key |-> <<"r","e","a","l","i","t","y","k","i","t">>,
      paths |-> << <<"r","e","a","l","i","t","y","k","i","t">> >> ],
    [ key |-> <<"a","r","k","i","t">>,
      paths |-> << <<"a","r","k","i","t">> >> ],
    [ key |-> <<"c","o","r","e","d","a","t","a">>,
      paths |-> << <<"c","o","r","e","d","a","t","a">> >> ],
    [ key |-> <<"c","o","r","e","m","l">>,
      paths |-> << <<"c","o","r","e","m","l">> >> ],
    [ key |-> <<"m","a","p","k","i","t">>,
      paths |-> << <<"m","a","p","k","i","t">> >> ],
    [ key |-> <<"c","l","o","u","d","k","i","t">>,
      paths |-> << <<"c","l","o","u","d","k","i","t">> >> ],
    [ key |-> <<"h","e","a","l","t","h","k","i","t">>,
      paths |-> << <<"h","e","a","l","t","h","k","i","t">> >> ],
    [ key |-> <<"s","t","o","r","e","k","i","t">>,
      paths |-> << <<"s","t","o","r","e","k","i","t">> >> ],
    [ key |-> <<"a","v","f","o","u","n","d","a","t","i","o","n">>,
      paths |-> << <<"a","v","f","o","u","n","d","a","t","i","o","n">> >> ],
    [ key |-> <<"s","w","i","f","t">>,
      paths |-> << <<"s","w","i","f","t">>, <<"o","b","s","e","r","v","a","t","i","o","n">> >> ]
  >>

API_MAPPINGS ==
  <<
    [ key |-> <<"n","a","v","i","g","a","t","i","o","n","s","t","a","c","k">>,
      framework |-> <<"s","w","i","f","t","u","i">>,
      path |-> <<"s","w","i","f","t","u","i","/","n","a","v","i","g","a","t","i","o","n","s","t","a","c","k">> ],
    [ key |-> <<"n","a","v","i","g","a","t","i","o","n","l","i","n","k">>,
      framework |-> <<"s","w","i","f","t","u","i">>,
      path |-> <<"s","w","i","f","t","u","i","/","n","a","v","i","g","a","t","i","o","n","l","i","n","k">> ],
    [ key |-> <<"n","a","v","i","g","a","t","i","o","n","p","a","t","h">>,
      framework |-> <<"s","w","i","f","t","u","i">>,
      path |-> <<"s","w","i","f","t","u","i","/","n","a","v","i","g","a","t","i","o","n","p","a","t","h">> ],
    [ key |-> <<"n","a","v","i","g","a","t","i","o","n","s","p","l","i","t","v","i","e","w">>,
      framework |-> <<"s","w","i","f","t","u","i">>,
      path |-> <<"s","w","i","f","t","u","i","/","n","a","v","i","g","a","t","i","o","n","s","p","l","i","t","v","i","e","w">> ],
    [ key |-> <<"l","i","s","t">>,
      framework |-> <<"s","w","i","f","t","u","i">>,
      path |-> <<"s","w","i","f","t","u","i","/","l","i","s","t">> ],
    [ key |-> <<"f","o","r","m">>,
      framework |-> <<"s","w","i","f","t","u","i">>,
      path |-> <<"s","w","i","f","t","u","i","/","f","o","r","m">> ],
    [ key |-> <<"s","h","e","e","t">>,
      framework |-> <<"s","w","i","f","t","u","i">>,
      path |-> <<"s","w","i","f","t","u","i","/","v","i","e","w","/","s","h","e","e","t","(","i","s","p","r","e","s","e","n","t","e","d",":","o","n","d","i","s","m","i","s","s",":","c","o","n","t","e","n","t",":",")">> ],
    [ key |-> <<"s","t","a","t","e">>,
      framework |-> <<"s","w","i","f","t","u","i">>,
      path |-> <<"s","w","i","f","t","u","i","/","s","t","a","t","e">> ],
    [ key |-> <<"b","i","n","d","i","n","g">>,
      framework |-> <<"s","w","i","f","t","u","i">>,
      path |-> <<"s","w","i","f","t","u","i","/","b","i","n","d","i","n","g">> ],
    [ key |-> <<"e","n","v","i","r","o","n","m","e","n","t">>,
      framework |-> <<"s","w","i","f","t","u","i">>,
      path |-> <<"s","w","i","f","t","u","i","/","e","n","v","i","r","o","n","m","e","n","t">> ],
    [ key |-> <<"e","n","v","i","r","o","n","m","e","n","t","o","b","j","e","c","t">>,
      framework |-> <<"s","w","i","f","t","u","i">>,
      path |-> <<"s","w","i","f","t","u","i","/","e","n","v","i","r","o","n","m","e","n","t","o","b","j","e","c","t">> ],
    [ key |-> <<"s","t","a","t","e","o","b","j","e","c","t">>,
      framework |-> <<"s","w","i","f","t","u","i">>,
      path |-> <<"s","w","i","f","t","u","i","/","s","t","a","t","e","o","b","j","e","c","t">> ],
    [ key |-> <<"o","b","s","e","r","v","e","d","o","b","j","e","c","t">>,
      framework |-> <<"s","w","i","f","t","u","i">>,
      path |-> <<"s","w","i","f","t","u","i","/","o","b","s","e","r","v","e","d","o","b","j","e","c","t">> ],
    [ key |-> <<"v","i","e","w">>,
      framework |-> <<"s","w","i","f","t","u","i">>,
      path |-> <<"s","w","i","f","t","u","i","/","v","i","e","w">> ],
    [ key |-> <<"t","e","x","t">>,
      framework |-> <<"s","w","i","f","t","u","i">>,
      path |-> <<"s","w","i","f","t","u","i","/","t","e","x","t">> ],
    [ key |-> <<"b","u","t","t","o","n">>,
      framework |-> <<"s","w","i","f","t","u","i">>,
      path |-> <<"s","w","i","f","t","u","i","/","b","u","t","t","o","n">> ],
    [ key |-> <<"i","m","a","g","e">>,
      framework |-> <<"s","w","i","f","t","u","i">>,
      path |-> <<"s","w","i","f","t","u","i","/","i","m","a","g","e">> ],
    [ key |-> <<"a","s","y","n","c","i","m","a","g","e">>,
      framework |-> <<"s","w","i","f","t","u","i">>,
      path |-> <<"s","w","i","f","t","u","i","/","a","s","y","n","c","i","m","a","g","e">> ],
    [ key |-> <<"l","a","z","y","v","g","r","i","d">>,
      framework |-> <<"s","w","i","f","t","u","i">>,
      path |-> <<"s","w","i","f","t","u","i","/","l","a","z","y","v","g","r","i","d">> ],
    [ key |-> <<"l","a","z","y","h","g","r","i","d">>,
      framework |-> <<"s","w","i","f","t","u","i">>,
      path |-> <<"s","w","i","f","t","u","i","/","l","a","z","y","h","g","r","i","d">> ],
    [ key |-> <<"s","c","r","o","l","l","v","i","e","w">>,
      framework |-> <<"s","w","i","f","t","u","i">>,
      path |-> <<"s","w","i","f","t","u","i","/","s","c","r","o","l","l","v","i","e","w">> ],
    [ key |-> <<"t","a","b","v","i","e","w">>,
      framework |-> <<"s","w","i","f","t","u","i">>,
      path |-> <<"s","w","i","f","t","u","i","/","t","a","b","v","i","e","w">> ],
    [ key |-> <<"a","l","e","r","t">>,
      framework |-> <<"s","w","i","f","t","u","i">>,
      path |-> <<"s","w","i","f","t","u","i","/","v","i","e","w","/","a","l","e","r","t","(","i","s","p","r","e","s","e","n","t","e","d",":","c","o","n","t","e","n","t",":",")">> ],
    [ key |-> <<"t","o","o","l","b","a","r">>,
      framework |-> <<"s","w","i","f","t","u","i">>,
      path |-> <<"s","w","i","f","t","u","i","/","v","i","e","w","/","t","o","o","l","b","a","r","(","c","o","n","t","e","n","t",":",")","-","5","w","0","t","j">> ],
    [ key |-> <<"s","e","a","r","c","h","a","b","l","e">>,
      framework |-> <<"s","w","i","f","t","u","i">>,
      path |-> <<"s","w","i","f","t","u","i","/","v","i","e","w","/","s","e","a","r","c","h","a","b","l","e","(","t","e","x","t",":","p","l","a","c","e","m","e","n","t",":","p","r","o","m","p","t",":",")">> ],
    [ key |-> <<"t","a","s","k">>,
      framework |-> <<"s","w","i","f","t","u","i">>,
      path |-> <<"s","w","i","f","t","u","i","/","v","i","e","w","/","t","a","s","k","(","p","r","i","o","r","i","t","y",":","_",":",")">> ],
    [ key |-> <<"o","n","a","p","p","e","a","r">>,
      framework |-> <<"s","w","i","f","t","u","i">>,
      path |-> <<"s","w","i","f","t","u","i","/","v","i","e","w","/","o","n","a","p","p","e","a","r","(","p","e","r","f","o","r","m",":",")">> ],
    [ key |-> <<"o","n","d","i","s","a","p","p","e","a","r">>,
      framework |-> <<"s","w","i","f","t","u","i">>,
      path |-> <<"s","w","i","f","t","u","i","/","v","i","e","w","/","o","n","d","i","s","a","p","p","e","a","r","(","p","e","r","f","o","r","m",":",")">> ],
    [ key |-> <<"o","b","s","e","r","v","a","b","l","e">>,
      framework |-> <<"o","b","s","e","r","v","a","t","i","o","n">>,
      path |-> <<"o","b","s","e","r","v","a","t","i","o","n","/","o","b","s","e","r","v","a","b","l","e">> ],
    [ key |-> <<"@","o","b","s","e","r","v","a","b","l","e">>,
      framework |-> <<"o","b","s","e","r","v","a","t","i","o","n">>,
      path |-> <<"o","b","s","e","r","v","a","t","i","o","n","/","o","b","s","e","r","v","a","b","l","e","(",")">> ],
    [ key |-> <<"@","m","o","d","e","l">>,
      framework |-> <<"s","w","i","f","t","d","a","t","a">>,
      path |-> <<"s","w","i","f","t","d","a","t","a","/","m","o","d","e","l","(",")">> ],
    [ key |-> <<"m","o","d","e","l","c","o","n","t","a","i","n","e","r">>,
      framework |-> <<"s","w","i","f","t","d","a","t","a">>,
      path |-> <<"s","w","i","f","t","d","a","t","a","/","m","o","d","e","l","c","o","n","t","a","i","n","e","r">> ],
    [ key |-> <<"m","o","d","e","l","c","o","n","t","e","x","t">>,
      framework |-> <<"s","w","i","f","t","d","a","t","a">>,
      path |-> <<"s","w","i","f","t","d","a","t","a","/","m","o","d","e","l","c","o","n","t","e","x","t">> ],
    [ key |-> <<"@","q","u","e","r","y">>,
      framework |-> <<"s","w","i","f","t","d","a","t","a">>,
      path |-> <<"s","w","i","f","t","d","a","t","a","/","q","u","e","r","y">> ],
    [ key |-> <<"p","u","b","l","i","s","h","e","r">>,
      framework |-> <<"c","o","m","b","i","n","e">>,
      path |-> <<"c","o","m","b","i","n","e","/","p","u","b","l","i","s","h","e","r">> ],
    [ key |-> <<"s","u","b","j","e","c","t">>,
      framework |-> <<"c","o","m","b","i","n","e">>,
      path |-> <<"c","o","m","b","i","n","e","/","s","u","b","j","e","c","t">> ],
    [ key |-> <<"p","a","s","s","t","h","r","o","u","g","h","s","u","b","j","e","c","t">>,
      framework |-> <<"c","o","m","b","i","n","e">>,
      path |-> <<"c","o","m","b","i","n","e","/","p","a","s","s","t","h","r","o","u","g","h","s","u","b","j","e","c","t">> ],
    [ key |-> <<"c","u","r","r","e","n","t","v","a","l","u","e","s","u","b","j","e","c","t">>,
      framework |-> <<"c","o","m","b","i","n","e">>,
      path |-> <<"c","o","m","b","i","n","e","/","c","u","r","r","e","n","t","v","a","l","u","e","s","u","b","j","e","c","t">> ],
    [ key |-> <<"u","r","l">>,
      framework |-> <<"f","o","u","n","d","a","t","i","o","n">>,
      path |-> <<"f","o","u","n","d","a","t","i","o","n","/","u","r","l">> ],
    [ key |-> <<"u","r","l","s","e","s","s","i","o","n">>,
      framework |-> <<"f","o","u","n","d","a","t","i","o","n">>,
      path |-> <<"f","o","u","n","d","a","t","i","o","n","/","u","r","l","s","e","s","s","i","o","n">> ],
    [ key |-> <<"d","a","t","a">>,
      framework |-> <<"f","o","u","n","d","a","t","i","o","n">>,
      path |-> <<"f","o","u","n","d","a","t","i","o","n","/","d","a","t","a">> ],
    [ key |-> <<"d","a","t","e">>,
      framework |-> <<"f","o","u","n","d","a","t","i","o","n">>,
      path |-> <<"f","o","u","n","d","a","t","i","o","n","/","d","a","t","e">> ],
    [ key |-> <<"u","s","e","r","d","e","f","a","u","l","t","s">>,
      framework |-> <<"f","o","u","n","d","a","t","i","o","n">>,
      path |-> <<"f","o","u","n","d","a","t","i","o","n","/","u","s","e","r","d","e","f","a","u","l","t","s">> ],
    [ key |-> <<"n","o","t","i","f","i","c","a","t","i","o","n">>,
      framework |-> <<"f","o","u","n","d","a","t","i","o","n">>,
      path |-> <<"f","o","u","n","d","a","t","i","o","n","/","n","o","t","i","f","i","c","a","t","i","o","n">> ],
    [ key |-> <<"n","o","t","i","f","i","c","a","t","i","o","n","c","e","n","t","e","r">>,
      framework |-> <<"f","o","u","n","d","a","t","i","o","n">>,
      path |-> <<"f","o","u","n","d","a","t","i","o","n","/","n","o","t","i","f","i","c","a","t","i","o","n","c","e","n","t","e","r">> ],
    [ key |-> <<"u","i","v","i","e","w","c","o","n","t","r","o","l","l","e","r">>,
      framework |-> <<"u","i","k","i","t">>,
      path |-> <<"u","i","k","i","t","/","u","i","v","i","e","w","c","o","n","t","r","o","l","l","e","r">> ],
    [ key |-> <<"u","i","t","a","b","l","e","v","i","e","w">>,
      framework |-> <<"u","i","k","i","t">>,
      path |-> <<"u","i","k","i","t","/","u","i","t","a","b","l","e","v","i","e","w">> ],
    [ key |-> <<"u","i","c","o","l","l","e","c","t","i","o","n","v","i","e","w">>,
      framework |-> <<"u","i","k","i","t">>,
      path |-> <<"u","i","k","i","t","/","u","i","c","o","l","l","e","c","t","i","o","n","v","i","e","w">> ],
    [ key |-> <<"u","i","n","a","v","i","g","a","t","i","o","n","c","o","n","t","r","o","l","l","e","r">>,
      framework |-> <<"u","i","k","i","t">>,
      path |-> <<"u","i","k","i","t","/","u","i","n","a","v","i","g","a","t","i","o","n","c","o","n","t","r","o","l","l","e","r">> ]
  >>

\* the lower-case property names every object inherits from Object.prototype
\* (the others have a capital letter and no lower-cased key reaches them)
InheritedKeys == { <<"c","o","n","s","t","r","u","c","t","o","r">>, <<"_","_","p","r","o","t","o","_","_">> }

\* table[key] for an object literal: the row of an own key, the inherited
\* value of an inherited name, undefined otherwise
Lookup(table, key) ==
  IF \E k \in 1..Len(table) : table[k].key = key
  THEN [found |-> "own", row |-> table[CHOOSE k \in 1..Len(table) : table[k].key = key]]
  ELSE IF key \in InheritedKeys
       THEN [found |-> "inherited", row |-> <<>>]
       ELSE [found |-> "no", row |-> <<>>]

AT_SIGN == << "@" >>

SLASH == << "/" >>

\* the normalisation as it would be without the lower-casing
normalizeKeepingCase(query) ==
  IF Len(query) > 0 /\ query[1] = "@" THEN Tail(query) ELSE query

\* lines 137 and 186: toLowerCase().replace(/^@/, "")
normalize(query) ==
  LET lower == toLowerCase(query)
  IN  IF Len(lower) > 0 /\ lower[1] = "@" THEN Tail(lower) ELSE lower

\* lines 185-204: the mapped path, undefined (the path property of an
\* inherited value), the path built from the framework, or null
getDocPath(query, framework) ==
  LET normalizedQuery == normalize(query)
      direct == Lookup(API_MAPPINGS, normalizedQuery)
      withAt == Lookup(API_MAPPINGS, AT_SIGN \o normalizedQuery)
  IN  IF direct.found = "own" THEN JSString(direct.row.path)
      ELSE IF direct.found = "inherited" THEN Undefined
      ELSE IF withAt.found = "own" THEN JSString(withAt.row.path)
      ELSE IF withAt.found = "inherited" THEN Undefined
      ELSE IF Truthy(framework)
           THEN JSString(toLowerCase(framework.val) \o SLASH \o normalizedQuery)
           ELSE Null

\* line 210
DocUrl(docPath) == APPLE_DOCS_API \o SLASH \o docPath \o <<".","j","s","o","n">>

\* line 165
commonFrameworks ==
  << <<"s","w","i","f","t","u","i">>, <<"f","o","u","n","d","a","t","i","o","n">>, <<"u","i","k","i","t">>, <<"o","b","s","e","r","v","a","t","i","o","n">>, <<"s","w","i","f","t","d","a","t","a">>, <<"c","o","m","b","i","n","e">> >>

\* what fetchAppleDocs does next: request a path, or throw
FetchStep(docPath) == [kind |-> "fetch", path |-> docPath]

ThrowStep == [kind |-> "throw", path |-> <<>>]

\* lines 141-148: the request of the mapped path, when there is one
DirectSteps(normalizedQuery, framework) ==
  LET docPath == getDocPath(normalizedQuery, framework)
  IN  IF Truthy(docPath) THEN << FetchStep(docPath.val) >> ELSE <<>>

\* lines 151-162: the requests under the paths of the framework; iterating
\* an inherited value that is no array throws a TypeError
FrameworkSteps(normalizedQuery, framework) ==
  IF ~Truthy(framework) THEN <<>>
  ELSE LET frameworkPaths == Lookup(FRAMEWORK_PATHS, toLowerCase(framework.val))
       IN  IF frameworkPaths.found = "own"
           THEN [i \in 1..Len(frameworkPaths.row.paths) |->
                   FetchStep(frameworkPaths.row.paths[i] \o SLASH \o normalizedQuery)]
           ELSE IF frameworkPaths.found = "inherited" THEN << ThrowStep >>
           ELSE <<>>

\* lines 165-172
CommonSteps(normalizedQuery) ==
  [i \in 1..Len(commonFrameworks) |-> FetchStep(commonFrameworks[i] \o SLASH \o normalizedQuery)]

\* the steps as they would be if the common frameworks were tried before
\* the paths of the framework
StepsCommonFirst(query, framework) ==
  LET normalizedQuery == normalize(query)
  IN  DirectSteps(normalizedQuery, framework)
      \o CommonSteps(normalizedQuery)
      \o FrameworkSteps(normalizedQuery, framework)

\* lines 139-175: the steps of one invocation in order, as long as no
\* request yields a document
Steps(query, framework) ==
  LET normalizedQuery == normalize(query)
  IN  DirectSteps(normalizedQuery, framework)
      \o FrameworkSteps(normalizedQuery, framework)
      \o CommonSteps(normalizedQuery)

\* the loops as they would be if a failed request were repeated
AdvanceNever(position) == position

\* lines 148, 160 and 171: after a request that yields no document, go on
\* to the next step
Advance(position) == position + 1

\* lines 353-357
getDocPathFromTitle(title, framework) ==
  LET lower == toLowerCase(title)
      normalizedTitle == SelectSeq(lower, LAMBDA c : c \in LetterSet(LowerCaseLetters) \cup DigitChars)
  IN  toLowerCase(framework) \o SLASH \o normalizedTitle

\* Array.prototype.join of literal texts
RECURSIVE join(_, _)
join(texts, sep) ==
  IF Len(texts) = 0 THEN <<>>
  ELSE IF Len(texts) = 1 THEN << Str(texts[1]) >>
  ELSE << Str(texts[1]), Str(sep) >> \o join(Tail(texts), sep)

\* line 254: platforms.map(p => name introducedAt+).join(", ")
RECURSIVE PlatformList(_)
PlatformList(platforms) ==
  IF Len(platforms) = 0 THEN <<>>
  ELSE << Str(platforms[1].name), Str(" "), Str(platforms[1].introducedAt), Str("+") >>
       \o (IF Len(platforms) > 1 THEN << Str(", ") >> ELSE <<>>)
       \o PlatformList(Tail(platforms))

\* lines 307-330
parseContentSection(content) ==
  Flatten([i \in 1..Len(content) |->
    LET item == content[i]
    IN  IF item.type = "heading"
        THEN << Txt([k \in 1..item.level |-> "#"]), Str(" "), Str(item.text), Str("\n\n") >>
        ELSE IF item.type = "paragraph"
        THEN << Str(item.text), Str("\n\n") >>
        ELSE IF item.type = "codeListing"
        THEN << Str("<backtick><backtick><backtick>"), Str(item.syntax), Str("\n") >>
             \o join(item.code, "\n")
             \o << Str("\n<backtick><backtick><backtick>\n\n") >>
        ELSE <<>>])

\* lines 335-348
extractCodeExamples(doc) ==
  SelectSeq(doc.content, LAMBDA item : item.type = "codeListing" /\ Len(item.code) > 0)

\* the day of the call, new Date().toISOString().split('T')[0]
Today == [clock |-> "YYYY-MM-DD"]

\* line 135: includeExamples: boolean = true
IncludeExamples(includeExamples) ==
  IF includeExamples = Undefined THEN TRUE ELSE includeExamples.val

\* lines 233-302: the text, or the TypeError of reading a payload that is
\* not shaped like a document
formatLiveDoc(doc, query, includeExamples) ==
  IF doc.kind = "misshapen"
  THEN [threw |-> TRUE, text |-> <<>>]
  ELSE
  LET title == IF Truthy(doc.title) THEN doc.title.val ELSE query
      framework == IF Truthy(doc.module) THEN doc.module.val ELSE <<>>
      codeExamples == extractCodeExamples(doc)
  IN  [threw |-> FALSE,
       text |->
         << Str("# (books) Apple Developer Documentation: "), Txt(title), Str("\n\n"),
            Str("> (check mark) **Live documentation from developer.apple.com**\n\n") >>
         \o (IF Truthy(doc.roleHeading)
             THEN << Str("**Type:** "), Txt(doc.roleHeading.val), Str("\n") >> ELSE <<>>)
         \o (IF Len(framework) > 0
             THEN << Str("**Framework:** "), Txt(framework), Str("\n") >> ELSE <<>>)
         \o (IF Len(doc.platforms) > 0
             THEN << Str("**Availability:** ") >>
                  \o PlatformList(doc.platforms)
                  \o << Str("\n") >>
             ELSE <<>>)
         \o << Str("**Documentation URL:** https://developer.apple.com/documentation/"),
               Txt(getDocPathFromTitle(title, framework)), Str("\n\n") >>
         \o (IF Len(doc.declaration) > 0
             THEN << Str("## Declaration\n\n"), Str("<backtick><backtick><backtick>swift\n") >>
                  \o join(doc.declaration, "")
                  \o << Str("\n<backtick><backtick><backtick>\n\n") >>
             ELSE <<>>)
         \o (IF Len(doc.abstract) > 0
             THEN << Str("## Overview\n\n") >> \o join(doc.abstract, "") \o << Str("\n\n") >>
             ELSE <<>>)
         \o parseContentSection(doc.content)
         \o (IF IncludeExamples(includeExamples) /\ Len(codeExamples) > 0
             THEN << Str("## Code Examples\n\n") >>
                  \o Flatten([i \in 1..Len(codeExamples) |->
                                << Str("<backtick><backtick><backtick>swift\n") >>
                                \o join(codeExamples[i].code, "\n")
                                \o << Str("\n<backtick><backtick><backtick>\n\n") >>])
             ELSE <<>>)
         \o << Str("---\n"),
               Str("*Documentation fetched live from Apple Developer on "), Today, Str("*\n") >>]

\* lines 362-382
formatNotFound(query, framework) ==
  << Str("# Apple Documentation: "), Txt(query), Str("\n\n"),
     Str("> (warning sign) Could not find live documentation for \""), Txt(query), Str("\"") >>
  \o (IF Truthy(framework) THEN << Str(" in "), Txt(framework.val) >> ELSE <<>>)
  \o << Str("\n\n"),
        Str("## Suggestions\n\n"),
        Str("1. Check the spelling of the API name\n"),
        Str("2. Try specifying the framework (e.g., \"SwiftUI\")\n"),
        Str("3. Use the full API name (e.g., \"NavigationStack\" instead of \"navigation\")\n\n"),
        Str("## Quick Links\n\n"),
        Str("- [Apple Developer Documentation](https://developer.apple.com/documentation/)\n"),
        Str("- [SwiftUI Documentation](https://developer.apple.com/documentation/swiftui)\n"),
        Str("- [Swift Documentation](https://developer.apple.com/documentation/swift)\n"),
        Str("- [WWDC Videos](https://developer.apple.com/videos/)\n") >>

\* lines 387-395
formatError(query, framework) ==
  << Str("# Apple Documentation: "), Txt(query), Str("\n\n"),
     Str("> (cross mark) Error fetching documentation\n\n"),
     Str("An error occurred while fetching documentation. Please try again.\n\n"),
     Str("## Quick Links\n\n"),
     Str("- [Apple Developer Documentation](https://developer.apple.com/documentation/)\n") >>

\* the catch as it would be if it passed the error on
catchOfFetchAppleDocsRethrowing(query, framework) ==
  [status |-> "rejected", value |-> << Str("fetch failed") >>]

\* lines 177-179: whatever is thrown inside the try becomes the error text
catchOfFetchAppleDocs(query, framework) ==
  [status |-> "fulfilled", value |-> formatError(query, framework)]


(***************************************************************************)
(* index.ts: the tool-call handler.                                        *)
(***************************************************************************)
VARIABLES
  pc,         \* "idle", "received" (a request is in), "awaiting" (the
              \* handler is suspended at its await), "done" (response sent)
  request,    \* the request being handled: params.name and params.arguments
  promise,    \* the promise the handler awaits
  response,   \* the response of the handler to request, once pc = "done"
  lastIndex,  \* the lastIndex property of the pattern of every rule
  ref,        \* an earlier request and its response, kept for comparison
  handlers,   \* the invocations of the handler that are in flight together
  failed      \* whether an invocation of a tool has thrown or rejected

vars == << pc, request, promise, response, lastIndex, ref, handlers, failed >>

\* the state of the single handler of Spec and SpecAnalyze
single == << pc, request, promise, response, ref >>

\* the state of the handlers in flight together
inFlight == << handlers, failed >>

ANALYZER == "xcode_diagnostic_analyzer"

NoPromise == [status |-> "none", value |-> <<>>]

NoResponse == [content |-> <<>>, isError |-> FALSE]

NoRef == [set |-> FALSE, request |-> [name |-> "", arguments |-> <<>>], response |-> NoResponse]

\* lines 142-144, 153-155, 163-165: a text result, no isError field
TextResult(text) == [content |-> << [type |-> "text", text |-> text] >>, isError |-> FALSE]

\* the error result as it would be without the flag
ErrorResultUnflagged(text) == [content |-> << [type |-> "text", text |-> text] >>, isError |-> FALSE]

\* lines 169-172 and 176-179: a text result with isError: true
ErrorResult(text) == [content |-> << [type |-> "text", text |-> text] >>, isError |-> TRUE]

(***************************************************************************)
(* Inputs.                                                                 *)
(***************************************************************************)
\* how many lines a build log of LineLogs has at most
MaxLines == 2

NEWLINE == << "\n" >>

\* the lines build logs are made of
LineSeq ==
  << <<"e","r","r","o","r",":"," ","c","a","n","n","o","t"," ","f","i","n","d"," ","t","y","p","e"," ","'","F","o","o","'"," ","i","n"," ","s","c","o","p","e">>,
     <<"w","a","r","n","i","n","g",":"," ","c","a","n","n","o","t"," ","f","i","n","d"," ","'","b","a","r","'"," ","i","n"," ","s","c","o","p","e">>,
     <<"e","r","r","o","r",":"," ","m","a","i","n"," ","a","c","t","o","r","-","i","s","o","l","a","t","e","d"," ","p","r","o","p","e","r","t","y"," ","'","x","'"," ","c","a","n"," ","n","o","t"," ","b","e"," ","m","u","t","a","t","e","d"," ","f","r","o","m">>,
     <<"e","r","r","o","r",":"," ","b","u","i","l","d"," ","f","a","i","l","e","d">>,
     <<"n","o","t","e",":"," ","'","@","S","e","n","d","a","b","l","e","'"," ","c","l","o","s","u","r","e">>,
     <<"E","R","R","O","R",":"," ","V","A","L","U","E"," ","O","F"," ","T","Y","P","E"," ","'","A","'"," ","H","A","S"," ","N","O"," ","M","E","M","B","E","R"," ","'","b","'",";"," ","t","y","p","e"," ","'","A","'"," ","d","o","e","s"," ","n","o","t"," ","c","o","n","f","o","r","m"," ","t","o"," ","p","r","o","t","o","c","o","l"," ","'","B","'">>,
     <<"c","a","n","n","o","t"," ","c","o","n","v","e","r","t"," ","v","a","l","u","e"," ","o","f"," ","t","y","p","e"," ","'","I","'"," ","t","o"," ","e","x","p","e","c","t","e","d"," ","a","r","g","u","m","e","n","t"," ","t","y","p","e"," ","'","S","'",";"," ","a","m","b","i","g","u","o","u","s"," ","u","s","e"," ","o","f"," ","'","f","'">>,
     <<"u","s","e"," ","o","f"," ","u","n","r","e","s","o","l","v","e","d"," ","i","d","e","n","t","i","f","i","e","r"," ","'","y","'",";"," ","m","i","s","s","i","n","g"," ","a","r","g","u","m","e","n","t"," ","f","o","r"," ","p","a","r","a","m","e","t","e","r"," ","'","x","'">>,
     <<"W","a","r","n","i","n","g"," ","-"," ","c","a","n","n","o","t"," ","u","s","e"," ","m","u","t","a","t","i","n","g"," ","m","e","m","b","e","r"," ","o","n"," ","i","m","m","u","t","a","b","l","e"," ","v","a","l","u","e",";"," ","c","a","l","l"," ","c","a","n"," ","t","h","r","o","w",","," ","b","u","t"," ","i","t"," ","i","s"," ","n","o","t"," ","m","a","r","k","e","d"," ","w","i","t","h"," ","'","t","r","y","'">> >>

Lines == {LineSeq[i] : i \in 1..Len(LineSeq)}

RECURSIVE LogsOfLines(_)
LogsOfLines(n) ==
  IF n = 0 THEN { <<>> }
  ELSE LET shorter == LogsOfLines(n - 1)
       IN  shorter \cup Lines
           \cup {log \o NEWLINE \o line : log \in shorter \ { <<>> }, line \in Lines}

LineLogs == LogsOfLines(MaxLines)

Prefixes == { <<>>, <<"e","r","r","o","r",":"," ">>, <<"w","a","r","n","i","n","g",":"," ">> }

Identifiers == { <<"F","o","o">>, <<"b","a","r">>, <<"t","y","p","e">>, <<"x","_","1">>, <<"a","-","b">>, <<>> }

CANNOT_FIND == <<"c","a","n","n","o","t"," ","f","i","n","d"," ">>

TYPE_KEYWORD == <<"t","y","p","e"," ">>

QUOTE == << "'" >>

IN_SCOPE == <<" ","i","n"," ","s","c","o","p","e">>

\* one diagnostic "cannot find '<id>' in scope" or "cannot find type '<id>'
\* in scope"
ScopeMessage(prefix, kind, id) ==
  prefix \o CANNOT_FIND \o kind \o QUOTE \o id \o QUOTE \o IN_SCOPE

ScopeLogs ==
  {ScopeMessage(p, k, id) : p \in Prefixes, k \in { <<>>, TYPE_KEYWORD }, id \in Identifiers}

FillerChars == <<"0","1","2","3","4","5","6","7","8","9">>

Filler(n) == [i \in 1..n |-> FillerChars[(i % Len(FillerChars)) + 1]]

LINKER_LINE == <<"\n","l","i","n","k","e","r"," ","c","o","m","m","a","n","d"," ","f","a","i","l","e","d">>

\* logs whose length is just below, at and just above the slice limit
LongLogs ==
  {p \o Filler(n - Len(p)) \o t :
     p \in { <<"e","r","r","o","r",":"," ">>, <<"n","o","t","e",":"," ">> },
     n \in (SLICE_LIMIT - 1)..(SLICE_LIMIT + 1),
     t \in { <<>>, LINKER_LINE }}

\* logs of two diagnostics of the same kind about different identifiers
RepeatLogs ==
  {ScopeMessage(<<>>, k, first) \o NEWLINE \o ScopeMessage(<<>>, k, second) :
     k \in { <<>>, TYPE_KEYWORD },
     first \in { <<"F","o","o">>, <<"b","a","r">> }, second \in { <<"F","o","o">>, <<"b","a","r">> }}

\* logs no rule matches, with the markers in other letter cases and with
\* the words of the markers without the colon
MarkerLogs ==
  { <<"E","R","R","O","R",":"," ","B","U","I","L","D"," ","F","A","I","L","E","D">>,
    <<"W","a","r","n","i","n","g",":"," ","u","n","u","s","e","d"," ","v","a","r","i","a","b","l","e">>,
    <<"e","r","r","o","r"," ","a","n","d"," ","w","a","r","n","i","n","g">> }

\* logs that hold a letter outside the ASCII range whose lower-case or
\* upper-case form is a letter of a pattern
CaseLogs ==
  { <<"l","i","n">> \o <<KELVIN_SIGN>> \o <<"e","r"," ","c","o","m","m","a","n","d"," ","f","a","i","l","e","d">>,
    <<"c","a","n","n","o","t"," ","f","i","n","d"," ","t","y","p","e"," ","'","F","o","o","'"," ","i","n"," ">> \o <<LONG_S>> \o <<"c","o","p","e">> }

Logs == LineLogs \cup ScopeLogs \cup LongLogs \cup RepeatLogs \cup MarkerLogs \cup CaseLogs

ErrorCodes == { Undefined, JSString(<<"E","0","4","2","5">>) }

Contexts == { Undefined, JSString(<<"i","O","S"," ","1","7">>) }

\* the requests of SpecAnalyze: every log, with both annotations or none
AnalyzeRequests ==
  [name : {ANALYZER},
   arguments :
     {[buildLog |-> b, errorCode |-> a[1], context |-> a[2]] :
        b \in {JSString(l) : l \in Logs} \cup {Undefined},
        a \in {<< Undefined, Undefined >>,
               << JSString(<<"E","0","4","2","5">>), JSString(<<"i","O","S"," ","1","7">>) >>}}]

\* how many lines of LineSeq the requests of the server specification use
MaxServerLines == 5

\* the logs of the server specification: empty or one line
ServerLogs == { <<>> } \cup {LineSeq[i] : i \in 1..MaxServerLines}

NoArguments == [buildLog |-> Undefined, errorCode |-> Undefined, context |-> Undefined]

UnknownToolNames == { "xcode_build", "", "Swift_Evolution_Check" }

ServerRequests ==
  [name : {ANALYZER},
   arguments : [buildLog : {JSString(l) : l \in ServerLogs} \cup {Undefined},
                errorCode : ErrorCodes,
                context : Contexts]]
  \cup [name : UnknownToolNames, arguments : {NoArguments}]

\* how many invocations of the handler are in flight together at most
MaxInFlight == 2

HandlerIds == 1..MaxInFlight

FETCHER == "fetch_latest_apple_docs"

EVOLUTION == "swift_evolution_check"

\* what fetchLiveDoc returns when it has no document
NoDoc == [kind |-> "null"]

\* an invocation of the handler: its position in the code, the request,
\* the promise it awaits, its response, and for fetchAppleDocs the step it
\* is at, the URLs it has requested and the document it got; and for the
\* record, how many responses it has sent and whether an invocation had
\* failed before it began
Idle ==
  [pc |-> "idle", request |-> [name |-> "", arguments |-> <<>>], promise |-> NoPromise,
   response |-> NoResponse, position |-> 0, requested |-> <<>>, liveDoc |-> NoDoc,
   responses |-> 0, failedBefore |-> FALSE]

InFlight(rec) == rec.pc \notin {"idle", "done"}

(***************************************************************************)
(* The state machine.                                                      *)
(***************************************************************************)
\* the names as they would be if the switch had no case for the analyzer
ToolsWithoutAnalyzer == { "fetch_latest_apple_docs", "swift_evolution_check" }

TOOLS == { "fetch_latest_apple_docs", "xcode_diagnostic_analyzer", "swift_evolution_check" }

NoRequest == [name |-> "", arguments |-> NoArguments]

Init ==
  /\ pc = "idle"
  /\ request = NoRequest
  /\ promise = NoPromise
  /\ response = NoResponse
  /\ lastIndex = [r \in Rules |-> 0]
  /\ ref = NoRef
  /\ handlers = [h \in HandlerIds |-> Idle]
  /\ failed = FALSE

\* a tools/call request arrives and the handler is invoked (line 131)
Receive(req) ==
  /\ pc \in {"idle", "done"}
  /\ pc' = "received"
  /\ request' = req
  /\ promise' = NoPromise
  /\ response' = NoResponse
  /\ UNCHANGED << lastIndex, ref, inFlight >>

\* keep the finished exchange for comparison, or not
Remember(req, resp) ==
  ref' \in {ref, [set |-> TRUE, request |-> req, response |-> resp]}

\* lines 147-152: the handler calls analyzeBuildLog, which runs to its
\* return without suspending, and awaits the promise
CallAnalyzer ==
  /\ pc = "received"
  /\ request.name = ANALYZER
  /\ LET call == analyzeBuildLog(request.arguments.buildLog,
                                 request.arguments.errorCode,
                                 request.arguments.context, lastIndex)
     IN  /\ promise' = call.promise
         /\ lastIndex' = call.lastIndex
  /\ pc' = "awaiting"
  /\ UNCHANGED << request, response, ref, inFlight >>

\* lines 153-155 and 174-179: the awaited promise has settled; a fulfilled
\* one becomes the text result, a rejected one is caught
Resume ==
  /\ pc = "awaiting"
  /\ response' =
       IF promise.status = "fulfilled"
       THEN TextResult(promise.value)
       ELSE ErrorResult(<< Str("Error executing "), Str(request.name), Str(": ") >>
                        \o promise.value)
  /\ pc' = "done"
  /\ Remember(request, response')
  /\ UNCHANGED << request, promise, lastIndex, inFlight >>

\* lines 168-172: the default case of the switch
CallUnknown ==
  /\ pc = "received"
  /\ request.name \notin TOOLS
  /\ response' = ErrorResult(<< Str("Unknown tool: "), Str(request.name) >>)
  /\ pc' = "done"
  /\ Remember(request, response')
  /\ UNCHANGED << request, promise, lastIndex, inFlight >>

Next ==
  \/ \E req \in ServerRequests : Receive(req)
  \/ CallAnalyzer
  \/ Resume
  \/ CallUnknown

Spec == Init /\ [][Next]_vars

\* One invocation of the analyzer on every input of AnalyzeRequests.
InitAnalyze ==
  /\ pc = "received"
  /\ request \in AnalyzeRequests
  /\ promise = NoPromise
  /\ response = NoResponse
  /\ lastIndex = [r \in Rules |-> 0]
  /\ ref = NoRef
  /\ handlers = [h \in HandlerIds |-> Idle]
  /\ failed = FALSE

NextAnalyze ==
  \/ CallAnalyzer
  \/ Resume

SpecAnalyze == InitAnalyze /\ [][NextAnalyze]_vars


(***************************************************************************)
(* The handler with several invocations in flight.  An invocation runs     *)
(* from one await to the next without interruption; between two of its     *)
(* steps any other invocation may run.                                     *)
(***************************************************************************)
\* how many requests the model lets one fetchAppleDocs invocation issue
MaxRequests == 12

\* the payloads response.json() resolves to: a documentation object with
\* all its parts, the empty object, the value null, and an object whose
\* parts have other types than formatLiveDoc reads
DocFull ==
  [kind |-> "object",
   title |-> JSString(<<"N","a","v","i","g","a","t","i","o","n","S","t","a","c","k">>),
   roleHeading |-> JSString(<<"S","t","r","u","c","t","u","r","e">>),
   module |-> JSString(<<"S","w","i","f","t","U","I">>),
   platforms |-> << [name |-> "iOS", introducedAt |-> "16.0"],
                    [name |-> "macOS", introducedAt |-> "13.0"] >>,
   declaration |-> << "struct", " ", "NavigationStack" >>,
   abstract |-> << "A view that displays a root view." >>,
   content |-> << [type |-> "heading", level |-> 2, text |-> "Overview"],
                  [type |-> "paragraph", text |-> "Use a navigation stack."],
                  [type |-> "codeListing", syntax |-> "swift",
                   code |-> << "NavigationStack {", "}" >>] >>]

DocEmpty ==
  [kind |-> "object", title |-> Undefined, roleHeading |-> Undefined, module |-> Undefined,
   platforms |-> <<>>, declaration |-> <<>>, abstract |-> <<>>, content |-> <<>>]

DocMisshapen == [kind |-> "misshapen"]

Bodies == { DocFull, DocEmpty, DocMisshapen, NoDoc }

\* the ways response.json() settles
JsonOutcomes == Bodies \cup { [kind |-> "invalid"] }

\* the ways fetch settles: rejected, a status outside 200-299, a status in it
FetchOutcomes == { "network error", "not ok", "ok" }

Queries ==
  { JSString(<<"N","a","v","i","g","a","t","i","o","n","S","t","a","c","k">>), JSString(<<"@","M","o","d","e","l">>), JSString(<<"@","O","b","s","e","r","v","a","b","l","e">>),
    JSString(<<"F","o","o">>), JSString(<<"c","o","n","s","t","r","u","c","t","o","r">>), JSString(<<>>), Undefined }

Frameworks ==
  { Undefined, JSString(<<"S","w","i","f","t","U","I">>), JSString(<<"s","w","i","f","t">>), JSString(<<"V","a","p","o","r">>),
    JSString(<<"c","o","n","s","t","r","u","c","t","o","r">>), JSString(<<>>) }

JSBoolean(b) == [type |-> "boolean", val |-> b]

\* the requests of one fetch_latest_apple_docs invocation
FetcherRequests ==
  [name : {FETCHER},
   arguments : [query : Queries, framework : Frameworks,
                includeExamples : { Undefined, JSBoolean(FALSE) }]]

Features ==
  { JSString(<<"@","O","b","s","e","r","v","a","b","l","e">>), JSString(<<"n","o","n","i","s","o","l","a","t","e","d","(","u","n","s","a","f","e",")">>), JSString(<<"T","y","p","e","d"," ","t","h","r","o","w","s">>), JSString(<<"P","a","r","a","m","e","t","e","r"," ","p","a","c","k","s">>),
    JSString(<<"N","o","n","c","o","p","y","a","b","l","e"," ","t","y","p","e","s">>), JSString(<<"i","f","/","s","w","i","t","c","h"," ","e","x","p","r","e","s","s","i","o","n","s">>), JSString(<<"M","a","c","r","o","s">>), JSString(<<"A","c","t","o","r"," ","i","s","o","l","a","t","i","o","n">>),
    JSString(<<"s","e","-","0","4","1","3">>), JSString(<<"z","z","z">>), JSString(<<>>),
    JSString(<< "a", LONE_SURROGATE >>), JSString(<<"S","w","i","f","t"," ","6">>),
    JSString(<<"S","e","n","d","a","b">>), Undefined }

SwiftVersions ==
  { Undefined, JSString(<<"5",".","9">>), JSString(<<"5",".","1","0">>), JSString(<<"6",".","0">>), JSString(<<"6">>),
    JSString(<<"l","a","t","e","s","t">>), JSString(<<"5">>), JSString(<<"5",".","1","0",".","1">>), JSString(<<"1","0",".","0">>), JSString(<<"4",".","2">>), JSString(<<"5",".","8">>) }

\* the requests of one swift_evolution_check invocation
EvolutionRequests ==
  [name : {EVOLUTION}, arguments : [feature : Features, swiftVersion : SwiftVersions]]

\* the requests of SpecServer
ConcurrentRequests ==
  [name : {ANALYZER},
   arguments : {[buildLog |-> b, errorCode |-> Undefined, context |-> Undefined] :
                  b \in { JSString(LineSeq[1]) }}]
  \cup [name : {FETCHER},
        arguments : {[query |-> JSString(<<"F","o","o">>), framework |-> JSString(<<"c","o","n","s","t","r","u","c","t","o","r">>),
                      includeExamples |-> Undefined],
                     [query |-> Undefined, framework |-> Undefined,
                      includeExamples |-> Undefined]}]
  \cup [name : {EVOLUTION},
        arguments : {[feature |-> f, swiftVersion |-> Undefined] :
                       f \in { JSString(<< "a", LONE_SURROGATE >>) }}]
  \cup [name : { "xcode_build" }, arguments : {NoArguments}]

\* line 131: a tools/call request arrives and an invocation of the handler
\* begins
Arrive(h, req) ==
  /\ handlers[h].pc \in {"idle", "done"}
  /\ handlers' = [handlers EXCEPT ![h] = [Idle EXCEPT !.pc = "received", !.request = req,
                                                        !.failedBefore = failed]]
  /\ UNCHANGED << single, lastIndex, failed >>

\* the invocation rec of fetchAppleDocs goes on with the step at position:
\* it requests the path of the step (line 213), or it has tried every path
\* and returns the not-found text (line 175), or the step throws and the
\* catch returns the error text (line 178)
Proceed(rec, position) ==
  LET query == rec.request.arguments.query.val
      framework == rec.request.arguments.framework
      steps == Steps(query, framework)
  IN  IF position > Len(steps)
      THEN [rec EXCEPT !.pc = "awaiting", !.position = position,
                       !.promise = Fulfilled(formatNotFound(query, framework))]
      ELSE IF steps[position].kind = "throw"
      THEN [rec EXCEPT !.pc = "awaiting", !.position = position,
                       !.promise = catchOfFetchAppleDocs(query, framework)]
      ELSE [rec EXCEPT !.pc = "fetching", !.position = position,
                       !.requested = Append(@, DocUrl(steps[position].path))]

\* lines 136-141: the handler calls fetchAppleDocs, which runs to its first
\* await.  Line 137 is outside the try: query.toLowerCase is a TypeError
\* when query is not a string.
CallFetcher(h) ==
  /\ handlers[h].pc = "received"
  /\ handlers[h].request.name = FETCHER
  /\ handlers' =
       [handlers EXCEPT ![h] =
          IF ~IsString(@.request.arguments.query)
          THEN [@ EXCEPT !.pc = "awaiting",
                         !.promise = Rejected("Cannot read properties of undefined (reading 'toLowerCase')")]
          ELSE Proceed(@, 1)]
  /\ UNCHANGED << single, lastIndex, failed >>

\* lines 213-227: the fetch settles; without a response of a success status
\* fetchLiveDoc returns null and fetchAppleDocs goes on
FetchSettles(h, outcome) ==
  /\ handlers[h].pc = "fetching"
  /\ Len(handlers[h].requested) < MaxRequests
  /\ handlers' =
       [handlers EXCEPT ![h] =
          IF outcome = "ok" THEN [@ EXCEPT !.pc = "parsing"]
          ELSE Proceed(@, Advance(@.position))]
  /\ UNCHANGED << single, lastIndex, failed >>

\* lines 224-226 and 145-147: response.json() settles; a body that is no
\* JSON makes fetchLiveDoc return null, a falsy value makes fetchAppleDocs
\* go on, anything else is formatted, and what formatLiveDoc throws is
\* caught
JsonSettles(h, body) ==
  /\ handlers[h].pc = "parsing"
  /\ Len(handlers[h].requested) < MaxRequests
  /\ handlers' =
       [handlers EXCEPT ![h] =
          IF body.kind \in {"invalid", "null"}
          THEN Proceed(@, Advance(@.position))
          ELSE LET query == @.request.arguments.query.val
                   formatted == formatLiveDoc(body, query, @.request.arguments.includeExamples)
               IN  [@ EXCEPT !.pc = "awaiting", !.liveDoc = body,
                             !.promise =
                               IF formatted.threw
                               THEN catchOfFetchAppleDocs(query, @.request.arguments.framework)
                               ELSE Fulfilled(formatted.text)]]
  /\ UNCHANGED << single, lastIndex, failed >>

\* lines 147-152: the handler calls analyzeBuildLog, which runs to its
\* return, on the patterns every invocation shares
CallAnalyzerInFlight(h) ==
  /\ handlers[h].pc = "received"
  /\ handlers[h].request.name = ANALYZER
  /\ LET args == handlers[h].request.arguments
         call == analyzeBuildLog(args.buildLog, args.errorCode, args.context, lastIndex)
     IN  /\ handlers' = [handlers EXCEPT ![h].pc = "awaiting", ![h].promise = call.promise]
         /\ lastIndex' = call.lastIndex
  /\ UNCHANGED << single, failed >>

\* lines 157-162: the handler calls checkSwiftEvolution, which runs to its
\* return
CallEvolution(h) ==
  /\ handlers[h].pc = "received"
  /\ handlers[h].request.name = EVOLUTION
  /\ LET args == handlers[h].request.arguments
     IN  handlers' = [handlers EXCEPT ![h].pc = "awaiting",
                                      ![h].promise = checkSwiftEvolution(args.feature, args.swiftVersion)]
  /\ UNCHANGED << single, lastIndex, failed >>

\* lines 167-172: the default case of the switch
CallUnknownInFlight(h) ==
  /\ handlers[h].pc = "received"
  /\ handlers[h].request.name \notin TOOLS
  /\ handlers' =
       [handlers EXCEPT ![h].pc = "done",
                        ![h].response = ErrorResult(<< Str("Unknown tool: "), Str(handlers[h].request.name) >>),
                        ![h].responses = @ + 1]
  /\ UNCHANGED << single, lastIndex, failed >>

\* the response of the handler to a settled promise: lines 142-144, 153-155
\* and 163-165 for a fulfilled one, the catch of lines 174-179 for a
\* rejected one
Reply(name, settled) ==
  IF settled.status = "fulfilled"
  THEN TextResult(settled.value)
  ELSE ErrorResult(<< Str("Error executing "), Str(name), Str(": ") >> \o settled.value)

\* the await of the handler resumes and the handler returns its response
Respond(h) ==
  /\ handlers[h].pc = "awaiting"
  /\ handlers' =
       [handlers EXCEPT ![h].pc = "done",
                        ![h].response = Reply(handlers[h].request.name, handlers[h].promise),
                        ![h].responses = @ + 1]
  /\ failed' = (failed \/ handlers[h].promise.status = "rejected")
  /\ UNCHANGED << single, lastIndex >>

\* the first handler has received req, the others are idle
Begin(req) ==
  handlers = [h \in HandlerIds |->
                IF h = 1 THEN [Idle EXCEPT !.pc = "received", !.request = req] ELSE Idle]

\* One invocation of a tool on every request of FetcherRequests,
\* EvolutionRequests and ServerRequests.
InitInvoke ==
  /\ pc = "idle"
  /\ request = NoRequest
  /\ promise = NoPromise
  /\ response = NoResponse
  /\ lastIndex = [r \in Rules |-> 0]
  /\ ref = NoRef
  /\ \/ \E req \in FetcherRequests : Begin(req)
     \/ \E req \in EvolutionRequests : Begin(req)
     \/ \E req \in ServerRequests : Begin(req)
  /\ failed = FALSE

NextInvoke ==
  \/ \E h \in HandlerIds : CallFetcher(h)
  \/ \E h \in HandlerIds, outcome \in FetchOutcomes : FetchSettles(h, outcome)
  \/ \E h \in HandlerIds, body \in JsonOutcomes : JsonSettles(h, body)
  \/ \E h \in HandlerIds : CallAnalyzerInFlight(h)
  \/ \E h \in HandlerIds : CallEvolution(h)
  \/ \E h \in HandlerIds : CallUnknownInFlight(h)
  \/ \E h \in HandlerIds : Respond(h)

SpecInvoke == InitInvoke /\ [][NextInvoke]_vars

\* the invocation h waits at the point at for something that can happen
Waiting(h, at) ==
  /\ handlers[h].pc = at
  /\ at \in {"fetching", "parsing"} => Len(handlers[h].requested) < MaxRequests

\* Weak fairness of the steps that take the invocation h on from the point
\* at.  WF_vars(A) is []<>~ENABLED <<A>>_vars \/ []<><<A>>_vars; here the
\* guard of the steps stands for ENABLED and a change of the invocation at
\* that point for the steps.
Settles(h, at) ==
  \/ []<>~Waiting(h, at)
  \/ []<><<Waiting(h, at) /\ handlers'[h] # handlers[h]>>_vars

\* Every outbound request settles (lines 213 and 224) and every
\* continuation of the event loop runs: the call of the tool, the
\* continuations of fetchLiveDoc, and the await of the handler.
SpecInvokeFair ==
  /\ SpecInvoke
  /\ WF_vars(\E h \in HandlerIds : Respond(h))
  /\ \A h \in HandlerIds : \A at \in {"received", "fetching", "parsing"} : Settles(h, at)

\* The server: requests arrive while others are in flight.
InitServer ==
  /\ pc = "idle"
  /\ request = NoRequest
  /\ promise = NoPromise
  /\ response = NoResponse
  /\ lastIndex = [r \in Rules |-> 0]
  /\ ref = NoRef
  /\ handlers = [h \in HandlerIds |-> Idle]
  /\ failed = FALSE

NextServer ==
  \/ \E h \in HandlerIds, req \in ConcurrentRequests : Arrive(h, req)
  \/ \E h \in HandlerIds : CallFetcher(h)
  \/ \E h \in HandlerIds, outcome \in FetchOutcomes : FetchSettles(h, outcome)
  \/ \E h \in HandlerIds, body \in JsonOutcomes : JsonSettles(h, body)
  \/ \E h \in HandlerIds : CallAnalyzerInFlight(h)
  \/ \E h \in HandlerIds : CallEvolution(h)
  \/ \E h \in HandlerIds : CallUnknownInFlight(h)
  \/ \E h \in HandlerIds : Respond(h)

SpecServer == InitServer /\ [][NextServer]_vars


(***************************************************************************)
(* What a pattern denotes, stated without the engine: the set of all ends  *)
(* of substrings that begin at position i and belong to the language of    *)
(* nodes[k..], letters compared without regard to case.                    *)
(***************************************************************************)
LowerChar(c) == IF c \in DOMAIN LowerMap THEN LowerMap[c] ELSE c

\* the text with its letters A to Z in lower case
LowerLetters(S) == SubSeq([i \in 1..Len(S) |-> LowerChar(S[i])], 1, Len(S))

\* S is the text and LS the text in lower case
RECURSIVE Ends(_, _, _, _, _)
Ends(nodes, k, S, LS, i) ==
  IF k > Len(nodes) THEN {i}
  ELSE
    LET n == nodes[k]
        here(lit) == /\ i + Len(lit) - 1 <= Len(S)
                     /\ \A j \in 1..Len(lit) : LS[i + j - 1] = LowerChar(lit[j])
    IN CASE n.t = "lit" ->
              IF here(n.s) THEN Ends(nodes, k + 1, S, LS, i + Len(n.s)) ELSE {}
         [] n.t = "plus" ->
              UNION {Ends(nodes, k + 1, S, LS, i + m) : m \in 1..RunLength(n.cls, S, i)}
         [] n.t = "opt" ->
              Ends(nodes, k + 1, S, LS, i)
              \cup (IF here(n.s) THEN Ends(nodes, k + 1, S, LS, i + Len(n.s)) ELSE {})
         [] n.t = "alt" ->
              UNION {IF here(n.opts[o])
                     THEN Ends(nodes, k + 1, S, LS, i + Len(n.opts[o])) ELSE {} :
                       o \in 1..Len(n.opts)}

\* the ends of the substrings of S that begin at i and match the pattern
EndsAt(rx, S, LS, i) == UNION {Ends(rx.alts[a], 1, S, LS, i) : a \in 1..Len(rx.alts)}

\* the positions of S where a substring that matches the pattern begins
MatchStarts(rx, S) ==
  LET LS == LowerLetters(S)
  IN  {i \in 1..(Len(S) + 1) : EndsAt(rx, S, LS, i) # {}}

\* the pattern matches somewhere in S
MatchesSomewhere(rx, S) == MatchStarts(rx, S) # {}

\* the rules whose pattern matches somewhere in S
MatchingRules(S) == {r \in Rules : MatchesSomewhere(ERROR_PATTERNS[r].pattern, S)}

\* the elements of a set of numbers in increasing order
RECURSIVE Ascending(_)
Ascending(s) == IF s = {} THEN <<>> ELSE << Min(s) >> \o Ascending(s \ {Min(s)})

(***************************************************************************)
(* Reading a rendered report.                                              *)
(***************************************************************************)
FINDINGS_TITLE == Str("# Xcode Build Diagnostic Analysis\n\n")

FALLBACK_TITLE == Str("# Build Log Analysis\n\n")

IsFindingsReport(report) == Len(report) > 0 /\ report[1] = FINDINGS_TITLE

IsFallbackReport(report) == Len(report) > 0 /\ report[1] = FALLBACK_TITLE

\* the Findings a report shows, in the order it shows them: a block opens
\* with "### ", the severity marker, the number and the category, and the
\* matched text is the first spliced text of the block
Findings(report) ==
  LET opens == Ascending({p \in 1..Len(report) : report[p] = Str("### ")})
  IN  [f \in 1..Len(opens) |->
         [number      |-> report[opens[f] + 3].num,
          category    |-> report[opens[f] + 5].lit,
          severity    |-> IF report[opens[f] + 1] = Str("U+1F534") THEN "error"
                          ELSE IF report[opens[f] + 1] = Str("U+1F7E1") THEN "warning"
                          ELSE "note",
          matchedText |-> report[opens[f] + 8].txt]]

\* the state right after analyzeBuildLog returned for a string buildLog
Analyzed ==
  /\ pc = "awaiting"
  /\ request.name = ANALYZER
  /\ IsString(request.arguments.buildLog)

logText == request.arguments.buildLog.val

Report == promise.value

(***************************************************************************)
(* C1: the Findings of a report are exactly the rules whose pattern        *)
(* matches somewhere in logText, one Finding per matching rule and none    *)
(* for the others, in the order the rules are declared, whatever the       *)
(* order of the matches in the text; the scan does not stop at a match.    *)
(***************************************************************************)
C1_FindingsAreTheMatchingRules ==
  Analyzed =>
    LET matching == Ascending(MatchingRules(logText))
        findings == Findings(Report)
    IN  /\ promise.status = "fulfilled"
        /\ Len(findings) = Len(matching)
        /\ \A f \in 1..Len(findings) :
             findings[f].category = ERROR_PATTERNS[matching[f]].type

\* a log where the rule declared later matches earlier in the text, and
\* both rules report
C1_Witness ==
  /\ Analyzed
  /\ logText = LineSeq[8]
  /\ Len(Findings(Report)) = 2
  /\ Findings(Report)[1].category = "Missing Argument"
  /\ Findings(Report)[2].category = "Unresolved Identifier"


(***************************************************************************)
(* C2: severity is one value for the whole report: "warning" when logText  *)
(* contains the word "warning" in any letter case, anywhere, and "error"   *)
(* otherwise; every Finding of the report carries that severity and no     *)
(* other.                                                                  *)
(***************************************************************************)
WARNING_LETTERS ==
  << {"w", "W"}, {"a", "A"}, {"r", "R"}, {"n", "N"}, {"i", "I"}, {"n", "N"}, {"g", "G"} >>

ContainsWarning(S) ==
  \E i \in 1..(Len(S) - Len(WARNING_LETTERS) + 1) :
    \A j \in 1..Len(WARNING_LETTERS) : S[i + j - 1] \in WARNING_LETTERS[j]

C2_SeverityIsGlobal ==
  (Analyzed /\ promise.status = "fulfilled") =>
    LET findings == Findings(Report)
        expected == IF ContainsWarning(logText) THEN "warning" ELSE "error"
    IN  \A f \in 1..Len(findings) : findings[f].severity = expected

\* two Findings, both warnings, for a log whose only "warning" is the
\* capitalised word without a colon
C2_Witness ==
  /\ Analyzed
  /\ logText = LineSeq[9]
  /\ Len(Findings(Report)) = 2
  /\ \A f \in 1..2 : Findings(Report)[f].severity = "warning"

(***************************************************************************)
(* C3: the fallback report is returned exactly when no rule matches        *)
(* logText; the findings report always shows at least one Finding, so a    *)
(* report that announces 0 issues is never produced.                       *)
(***************************************************************************)
\* the number in the "## Found N Issue(s)" line of a findings report
AnnouncedCount(report) ==
  LET p == CHOOSE q \in 1..Len(report) : report[q] = Str("## Found ")
  IN  report[p + 1].num

C3_FallbackIffNoRuleMatches ==
  (Analyzed /\ promise.status = "fulfilled") =>
    /\ IsFallbackReport(Report) <=> MatchingRules(logText) = {}
    /\ IsFindingsReport(Report) <=> ~IsFallbackReport(Report)
    /\ IsFindingsReport(Report) =>
         /\ AnnouncedCount(Report) >= 1
         /\ Len(Findings(Report)) >= 1

\* the fallback report for a log that has an error marker and matches no rule
C3_Witness ==
  /\ Analyzed
  /\ logText = LineSeq[4]
  /\ IsFallbackReport(Report)

(***************************************************************************)
(* C4: analyzeBuildLog returns a rendered report for every string logText, *)
(* the empty string and the strings that match no rule included, with or   *)
(* without errorCode and context: its promise is never rejected.           *)
(***************************************************************************)
C4_NeverRejectsAString ==
  Analyzed =>
    /\ promise.status = "fulfilled"
    /\ IsFindingsReport(Report) \/ IsFallbackReport(Report)

\* a report for a long log that matches no rule and has no marker
C4_Witness ==
  /\ Analyzed
  /\ Len(logText) > SLICE_LIMIT
  /\ MatchingRules(logText) = {}
  /\ promise.status = "fulfilled"
  /\ IsFallbackReport(Report)
  /\ Truthy(request.arguments.context)


(***************************************************************************)
(* C5: a call of the tool xcode_diagnostic_analyzer never ends in an error *)
(* result: whatever the arguments of the request, the response is a text   *)
(* block without the isError flag.                                         *)
(***************************************************************************)
C5_AnalyzerNeverAnswersWithError ==
  (pc = "done" /\ request.name = ANALYZER) => ~response.isError

(***************************************************************************)
(* C6: when logText contains a substring that matches                      *)
(* cannot find type '(\w+)' in scope, the report has exactly one Finding   *)
(* of category "Type Not Found", and its matched text is the whole first   *)
(* substring that matches: for "error: cannot find type 'Foo' in scope"    *)
(* it is "cannot find type 'Foo' in scope", without the prefix.            *)
(***************************************************************************)
\* the pattern as the claim states it
CANNOT_FIND_TYPE_IN_SCOPE ==
  RegExp(<< << RxLit(CANNOT_FIND \o TYPE_KEYWORD \o QUOTE), RxPlus("w"),
               RxLit(QUOTE \o IN_SCOPE) >> >>, {"i"})

FOO_NOT_FOUND == <<"c","a","n","n","o","t"," ","f","i","n","d"," ","t","y","p","e"," ","'","F","o","o","'"," ","i","n"," ","s","c","o","p","e">>

C6_TypeNotFoundOnceWithFullMatch ==
  (Analyzed /\ MatchesSomewhere(CANNOT_FIND_TYPE_IN_SCOPE, logText)) =>
    LET findings == Findings(Report)
        typeNotFound == {f \in 1..Len(findings) : findings[f].category = "Type Not Found"}
        first == Min(MatchStarts(CANNOT_FIND_TYPE_IN_SCOPE, logText))
        ends  == EndsAt(CANNOT_FIND_TYPE_IN_SCOPE, logText, LowerLetters(logText), first)
    IN  /\ promise.status = "fulfilled"
        /\ Cardinality(typeNotFound) = 1
        /\ \A f \in typeNotFound :
             /\ findings[f].matchedText \in {SubSeq(logText, first, e - 1) : e \in ends}
             /\ logText = LineSeq[1] => findings[f].matchedText = FOO_NOT_FOUND

\* the scenario of the claim
C6_Witness ==
  /\ Analyzed
  /\ logText = LineSeq[1]
  /\ Len(Findings(Report)) = 1
  /\ Findings(Report)[1].category = "Type Not Found"
  /\ Findings(Report)[1].matchedText = FOO_NOT_FOUND

(***************************************************************************)
(* C7: the two "cannot find ... in scope" rules never fire on the same     *)
(* diagnostic.  A log that is one message cannot find '<identifier>' in    *)
(* scope, with or without the prefix "warning: " or "error: ", yields      *)
(* exactly one Finding, "Symbol Not Found", of severity "warning" under    *)
(* the prefix "warning: "; one message cannot find type '<identifier>' in  *)
(* scope yields exactly one Finding, "Type Not Found".  An identifier is a *)
(* non-empty run of letters, digits and underscores.                       *)
(***************************************************************************)
IsIdentifier(id) == Len(id) > 0 /\ \A i \in 1..Len(id) : id[i] \in WordChars

WARNING_PREFIX == <<"w","a","r","n","i","n","g",":"," ">>

C7_ScopeRulesAreExclusive ==
  Analyzed =>
    \A p \in Prefixes, id \in {w \in Identifiers : IsIdentifier(w)} :
      LET findings == Findings(Report)
      IN  /\ logText = ScopeMessage(p, <<>>, id) =>
               /\ Len(findings) = 1
               /\ findings[1].category = "Symbol Not Found"
               /\ p = WARNING_PREFIX => findings[1].severity = "warning"
          /\ logText = ScopeMessage(p, TYPE_KEYWORD, id) =>
               /\ Len(findings) = 1
               /\ findings[1].category = "Type Not Found"

\* the scenario "warning: cannot find 'bar' in scope"
C7_Witness ==
  /\ Analyzed
  /\ logText = ScopeMessage(WARNING_PREFIX, <<>>, <<"b","a","r">>)
  /\ Len(Findings(Report)) = 1
  /\ Findings(Report)[1].category = "Symbol Not Found"
  /\ Findings(Report)[1].severity = "warning"

(***************************************************************************)
(* C8: for the empty logText no rule matches and the report is the         *)
(* fallback in its "No Clear Errors Detected" variant: neither marker is   *)
(* found and no excerpt of the log is rendered.                            *)
(***************************************************************************)
NO_CLEAR_ERRORS == Str("## (check mark) No Clear Errors Detected\n\n")

ISSUES_DETECTED == Str("## (warning sign) Build Issues Detected\n\n")

RAW_LOG == Str("**Raw Log:**\n<backtick><backtick><backtick>\n")

TRUNCATED == Str("\n...(truncated)")

Shows(report, piece) == \E q \in 1..Len(report) : report[q] = piece

C8_EmptyLogIsNoClearErrors ==
  (Analyzed /\ logText = <<>>) =>
    /\ MatchingRules(logText) = {}
    /\ promise.status = "fulfilled"
    /\ IsFallbackReport(Report)
    /\ Report[2] = NO_CLEAR_ERRORS
    /\ ~Shows(Report, ISSUES_DETECTED)
    /\ ~Shows(Report, RAW_LOG)
    /\ Len(Findings(Report)) = 0

C8_Witness ==
  /\ Analyzed
  /\ logText = <<>>
  /\ Shows(Report, NO_CLEAR_ERRORS)

(***************************************************************************)
(* C9: in the fallback report of the "Build Issues Detected" variant the   *)
(* excerpt is the first 2000 characters of logText, the whole log when it  *)
(* has 2000 characters or fewer, and the truncation marker follows it      *)
(* exactly when logText has more than 2000 characters.                     *)
(***************************************************************************)
IsIssuesReport(report) == IsFallbackReport(report) /\ report[2] = ISSUES_DETECTED

\* the text spliced in after the "Raw Log" line
Excerpt(report) ==
  LET p == CHOOSE q \in 1..Len(report) : report[q] = RAW_LOG
  IN  report[p + 1].txt

C9_ExcerptIsFirst2000 ==
  (Analyzed /\ promise.status = "fulfilled" /\ IsIssuesReport(Report)) =>
    LET n == IF Len(logText) < 2000 THEN Len(logText) ELSE 2000
    IN  /\ Shows(Report, RAW_LOG)
        /\ Excerpt(Report) = [i \in 1..n |-> logText[i]]
        /\ Shows(Report, TRUNCATED) <=> Len(logText) > 2000

\* a log of 2001 characters, cut after 2000 and marked
C9_Witness ==
  /\ Analyzed
  /\ Len(logText) = 2001
  /\ IsIssuesReport(Report)
  /\ Len(Excerpt(Report)) = 2000
  /\ Shows(Report, TRUNCATED)

(***************************************************************************)
(* C10: analyzeBuildLog keeps no state between invocations: the response   *)
(* to a request equals the response the same request got earlier, whatever *)
(* was invoked in between, on the findings path and on the fallback path.  *)
(***************************************************************************)
C10_SameRequestSameResponse ==
  (/\ pc = "done"
   /\ request.name = ANALYZER
   /\ ref.set
   /\ ref.request = request) => response = ref.response

\* the same request answered a second time with a findings report
C10_Witness ==
  /\ pc = "done"
  /\ request.name = ANALYZER
  /\ ref.set
  /\ ref.request = request
  /\ ~response.isError
  /\ IsFindingsReport(response.content[1].text)
  /\ response = ref.response


(***************************************************************************)
(* C11: errorCode and context do not affect matching.  For a fixed         *)
(* logText, the Findings (the rules that fire, their order, severity and   *)
(* matched text) and the choice between the findings report and the        *)
(* fallback report are the same for every errorCode and context, present   *)
(* or absent, also for a context that itself reads like a diagnostic.      *)
(***************************************************************************)
DIAGNOSTIC_LIKE == JSString(LineSeq[2])

C11_AnnotationsDoNotAffectMatching ==
  Analyzed =>
    \A e \in ErrorCodes, c \in Contexts \cup { DIAGNOSTIC_LIKE } :
      LET other == analyzeBuildLog(request.arguments.buildLog, e, c,
                                   [r \in Rules |-> 0]).promise
      IN  /\ other.status = promise.status
          /\ Findings(other.value) = Findings(Report)
          /\ IsFallbackReport(other.value) <=> IsFallbackReport(Report)
          /\ IsFindingsReport(other.value) <=> IsFindingsReport(Report)

\* an annotated request whose log has findings
C11_Witness ==
  /\ Analyzed
  /\ IsString(request.arguments.errorCode)
  /\ IsString(request.arguments.context)
  /\ IsFindingsReport(Report)
  /\ Len(Findings(Report)) = 2


(***************************************************************************)
(* C12: when an errorCode is supplied to analyzeBuildLog, the returned     *)
(* report carries it verbatim in its header, before the first section      *)
(* heading.                                                                *)
(***************************************************************************)
\* the pieces of a report before its first "## " section heading
Header(report) ==
  LET sections == {q \in 1..Len(report) :
                     /\ DOMAIN report[q] = {"lit"}
                     /\ report[q].lit \in {"## Found ", "## Suggestions\n\n",
                                           "## (check mark) No Clear Errors Detected\n\n",
                                           "## (warning sign) Build Issues Detected\n\n"}}
  IN  SubSeq(report, 1, Min(sections \cup {Len(report) + 1}) - 1)

C12_ErrorCodeInHeader ==
  (Analyzed /\ promise.status = "fulfilled" /\ IsString(request.arguments.errorCode)) =>
    Shows(Header(Report), Txt(request.arguments.errorCode.val))

(***************************************************************************)
(* C13: when a context is supplied to analyzeBuildLog, the returned report *)
(* carries it verbatim in its header, in the findings report and in the    *)
(* fallback report alike.                                                  *)
(***************************************************************************)
C13_ContextInHeader ==
  (Analyzed /\ promise.status = "fulfilled" /\ IsString(request.arguments.context)) =>
    Shows(Header(Report), Txt(request.arguments.context.val))


(***************************************************************************)
(* C14: tool invocations are independent under concurrency.  However the   *)
(* handlers of the requests in flight interleave at their awaits, the      *)
(* response of each request is the response the request gets when it is    *)
(* handled alone (for a documentation request: alone and with the same     *)
(* answers of the network), and no invocation leaves anything behind that  *)
(* another one reads: the match positions of the shared patterns stay at   *)
(* their initial value.                                                    *)
(***************************************************************************)
Pristine == [r \in Rules |-> 0]

\* what fetchAppleDocs settles to on its own for the request of rec, when
\* the steps before rec.position yield no document and the step at
\* rec.position yields rec.liveDoc
AloneFetched(rec) ==
  LET args == rec.request.arguments
      steps == Steps(args.query.val, args.framework)
  IN  IF rec.position > Len(steps)
      THEN Fulfilled(formatNotFound(args.query.val, args.framework))
      ELSE IF steps[rec.position].kind = "throw"
      THEN Fulfilled(formatError(args.query.val, args.framework))
      ELSE LET formatted == formatLiveDoc(rec.liveDoc, args.query.val, args.includeExamples)
           IN  IF formatted.threw
               THEN Fulfilled(formatError(args.query.val, args.framework))
               ELSE Fulfilled(formatted.text)

\* the response to the request of rec when no other request is around
AloneResponse(rec) ==
  LET name == rec.request.name
      args == rec.request.arguments
      prefix == << Str("Error executing "), Str(name), Str(": ") >>
      answer(settled) ==
        IF settled.status = "fulfilled"
        THEN [content |-> << [type |-> "text", text |-> settled.value] >>, isError |-> FALSE]
        ELSE [content |-> << [type |-> "text", text |-> prefix \o settled.value] >>,
              isError |-> TRUE]
  IN  IF name = ANALYZER
      THEN answer(analyzeBuildLog(args.buildLog, args.errorCode, args.context, Pristine).promise)
      ELSE IF name = EVOLUTION
      THEN answer(checkSwiftEvolution(args.feature, args.swiftVersion))
      ELSE IF name = FETCHER
      THEN IF IsString(args.query)
           THEN answer(AloneFetched(rec))
           ELSE answer(Rejected("Cannot read properties of undefined (reading 'toLowerCase')"))
      ELSE [content |-> << [type |-> "text", text |-> << Str("Unknown tool: "), Str(name) >>] >>,
            isError |-> TRUE]

C14_InvocationsAreIndependent ==
  /\ lastIndex = Pristine
  /\ \A h \in HandlerIds :
       handlers[h].pc = "done" => handlers[h].response = AloneResponse(handlers[h])
  /\ \A h, g \in HandlerIds :
       (/\ handlers[h].pc = "done"
        /\ handlers[g].pc = "done"
        /\ handlers[h].request = handlers[g].request
        /\ handlers[h].liveDoc = handlers[g].liveDoc
        /\ handlers[h].position = handlers[g].position)
       => handlers[h].response = handlers[g].response

\* an analyzer invocation that has returned its findings and awaits its
\* answer while a documentation request waits for the network
C14_Witness ==
  \E h, g \in HandlerIds :
    /\ h # g
    /\ handlers[h].pc = "awaiting"
    /\ handlers[h].request.name = ANALYZER
    /\ handlers[h].promise.status = "fulfilled"
    /\ IsFindingsReport(handlers[h].promise.value)
    /\ handlers[g].pc \in {"fetching", "parsing"}

(***************************************************************************)
(* C15: the documentation fetcher never propagates a failure.  For every   *)
(* string query, every framework and every outcome of every outbound       *)
(* request, fetchAppleDocs settles fulfilled with a text and the handler   *)
(* answers without the error flag; the text is the rendered document of    *)
(* the request that succeeded, and otherwise the not-found template or     *)
(* the error template for the query.                                       *)
(***************************************************************************)
\* rec is an invocation of fetchAppleDocs on a string query that has settled
FetcherSettled(rec) ==
  /\ rec.pc \in {"awaiting", "done"}
  /\ rec.request.name = FETCHER
  /\ IsString(rec.request.arguments.query)

\* the templated fallback texts for the request of rec
Fallbacks(rec) ==
  LET args == rec.request.arguments
  IN  { formatNotFound(args.query.val, args.framework),
        formatError(args.query.val, args.framework) }

C15_FetcherNeverRejects ==
  \A h \in HandlerIds :
    LET rec == handlers[h]
        args == rec.request.arguments
        rendered == formatLiveDoc(rec.liveDoc, args.query.val, args.includeExamples)
    IN  FetcherSettled(rec) =>
          /\ rec.promise.status = "fulfilled"
          /\ \/ rec.promise.value \in Fallbacks(rec)
             \/ /\ rec.liveDoc.kind = "object"
                /\ ~rendered.threw
                /\ rec.promise.value = rendered.text
          /\ rec.liveDoc.kind # "object" => rec.promise.value \in Fallbacks(rec)
          /\ rec.pc = "done" =>
                /\ ~rec.response.isError
                /\ rec.response.content[1].text = rec.promise.value

\* a request failed, the next one brought a payload formatLiveDoc cannot
\* read, and the answer is the error template without the error flag
C15_Witness ==
  \E h \in HandlerIds :
    /\ FetcherSettled(handlers[h])
    /\ handlers[h].pc = "done"
    /\ Len(handlers[h].requested) >= 2
    /\ handlers[h].liveDoc = DocMisshapen
    /\ ~handlers[h].response.isError
    /\ handlers[h].response.content[1].text =
         formatError(handlers[h].request.arguments.query.val,
                     handlers[h].request.arguments.framework)

(***************************************************************************)
(* C16: the documentation fetcher performs one outbound network call per   *)
(* invocation, with no retry.  An invocation of fetchAppleDocs on a string *)
(* query never has more than one request behind it, has exactly one when   *)
(* it has settled, and never requests the same URL a second time.          *)
(***************************************************************************)
NoUrlTwice(requested) ==
  \A i, j \in 1..Len(requested) : requested[i] = requested[j] => i = j

LongestChain ==
  1 + Max({Len(FRAMEWORK_PATHS[i].paths) : i \in 1..Len(FRAMEWORK_PATHS)}) + Len(commonFrameworks)

C17_EveryInvocationCompletes ==
  /\ \A h \in HandlerIds : (handlers[h].pc = "received") ~> (handlers[h].pc = "done")
  /\ [](\A h \in HandlerIds :
          /\ Len(handlers[h].requested) <= LongestChain
          /\ handlers[h].responses <= 1
          /\ handlers[h].pc = "done" => handlers[h].responses = 1)

\* fetchAppleDocs has returned its one text, the not-found template, after
\* the longest chain of requests, none of which yielded a document
C17_Witness ==
  \E h \in HandlerIds :
    /\ FetcherSettled(handlers[h])
    /\ handlers[h].pc = "done"
    /\ handlers[h].responses = 1
    /\ Len(handlers[h].requested) = LongestChain
    /\ handlers[h].response.content[1].text =
         formatNotFound(handlers[h].request.arguments.query.val,
                        handlers[h].request.arguments.framework)

(***************************************************************************)
(* Reading a report of checkSwiftEvolution.                                *)
(***************************************************************************)
NO_MATCH_HEADING == Str("## (question mark) No Exact Match Found\n\n")

IsNoMatchReport(report) == \E p \in 1..Len(report) : report[p] = NO_MATCH_HEADING

\* the proposals a report lists, in the order it lists them: a block opens
\* with "### ", the status marker and the id, and the version follows the
\* "Swift Version" cell
Listed(report) ==
  LET opens == Ascending({p \in 1..Len(report) : report[p] = Str("### ")})
  IN  [b \in 1..Len(opens) |->
         [id |-> report[opens[b] + 3].txt, swiftVersion |-> report[opens[b] + 13]]]

\* the rows of SWIFT_EVOLUTION_DB that match the feature by keyword in
\* either direction, by title or by id
MatchingRows(feature) ==
  LET normalizedFeature == toLowerCase(feature)
  IN  {i \in 1..Len(SWIFT_EVOLUTION_DB) :
         \/ keywordMatch(SWIFT_EVOLUTION_DB[i], normalizedFeature)
         \/ titleMatch(SWIFT_EVOLUTION_DB[i], normalizedFeature)
         \/ idMatch(SWIFT_EVOLUTION_DB[i], normalizedFeature)}

\* rec is an invocation of checkSwiftEvolution on a string feature that has
\* settled
EvolutionSettled(rec) ==
  /\ rec.pc \in {"awaiting", "done"}
  /\ rec.request.name = EVOLUTION
  /\ IsString(rec.request.arguments.feature)

(***************************************************************************)
(* C18: the proposal lookup never fails and works offline.  For every      *)
(* string feature and every target version, checkSwiftEvolution issues no  *)
(* request and settles fulfilled with a text; the text is the "No Exact    *)
(* Match Found" template exactly when no row of the table matches, and     *)
(* otherwise it lists the matching rows in the order of the table.         *)
(***************************************************************************)
C18_LookupNeverFails ==
  \A h \in HandlerIds :
    LET rec == handlers[h]
        rows == Ascending(MatchingRows(rec.request.arguments.feature.val))
    IN  EvolutionSettled(rec) =>
          /\ rec.requested = <<>>
          /\ rec.promise.status = "fulfilled"
          /\ IsNoMatchReport(rec.promise.value) <=> rows = <<>>
          /\ [b \in 1..Len(Listed(rec.promise.value)) |-> Listed(rec.promise.value)[b].id]
               = [b \in 1..Len(rows) |-> SWIFT_EVOLUTION_DB[rows[b]].id]
          /\ rec.pc = "done" => ~rec.response.isError

\* what holds of the lookup for every string feature: no request, and a
\* fulfilled text that is the no-match template exactly when no row matches
FulfilledLookupsAreRight ==
  \A h \in HandlerIds :
    LET rec == handlers[h]
        rows == Ascending(MatchingRows(rec.request.arguments.feature.val))
    IN  EvolutionSettled(rec) =>
          /\ rec.requested = <<>>
          /\ rec.promise.status = "fulfilled" =>
                /\ IsNoMatchReport(rec.promise.value) <=> rows = <<>>
                /\ [b \in 1..Len(Listed(rec.promise.value)) |-> Listed(rec.promise.value)[b].id]
                     = [b \in 1..Len(rows) |-> SWIFT_EVOLUTION_DB[rows[b]].id]
          /\ rec.promise.status = "rejected" =>
                /\ rows = <<>>
                /\ encodeURIComponent(rec.request.arguments.feature.val).threw

(***************************************************************************)
(* C19: the call handler is a blanket safety net.  Whenever the promise of *)
(* a tool is rejected, the handler answers exactly once, with isError true *)
(* and the text "Error executing <tool>: <message>" that names the tool;   *)
(* no invocation answers more than once; and a request that arrives after  *)
(* a failed invocation gets the response it gets on a fresh server.        *)
(***************************************************************************)
C19_HandlerIsSafetyNet ==
  \A h \in HandlerIds :
    LET rec == handlers[h]
    IN  /\ rec.responses <= 1
        /\ rec.pc = "done" => rec.responses = 1
        /\ (rec.pc = "done" /\ rec.promise.status = "rejected") =>
              /\ rec.response.isError
              /\ Len(rec.response.content) = 1
              /\ rec.response.content[1].text =
                   << Str("Error executing "), Str(rec.request.name), Str(": ") >>
                   \o rec.promise.value
              /\ rec.request.name \in TOOLS
        /\ (rec.pc = "done" /\ rec.failedBefore) => rec.response = AloneResponse(rec)

\* one invocation was rejected and answered with the error flag, and an
\* analyzer request that arrived after that failure got its findings
C19_Witness ==
  \E h, g \in HandlerIds :
    /\ h # g
    /\ handlers[g].pc = "done"
    /\ handlers[g].promise.status = "rejected"
    /\ handlers[g].response.isError
    /\ handlers[h].pc = "done"
    /\ handlers[h].failedBefore
    /\ handlers[h].request.name = ANALYZER
    /\ ~handlers[h].response.isError
    /\ IsFindingsReport(handlers[h].response.content[1].text)

(***************************************************************************)
(* ACTIVATION_GUIDE.md, lines 155-163: the features the guide lists as     *)
(* supported, with the proposals and the Swift version it gives for each.  *)
(***************************************************************************)
SupportedFeatures ==
  <<
    [feature |-> <<"@","O","b","s","e","r","v","a","b","l","e">>,
     proposals |-> { <<"S","E","-","0","3","9","5">> },
     swiftVersion |-> <<"5",".","9">>],
    [feature |-> <<"n","o","n","i","s","o","l","a","t","e","d","(","u","n","s","a","f","e",")">>,
     proposals |-> { <<"S","E","-","0","4","1","2">> },
     swiftVersion |-> <<"5",".","1","0">>],
    [feature |-> <<"T","y","p","e","d"," ","t","h","r","o","w","s">>,
     proposals |-> { <<"S","E","-","0","4","1","3">> },
     swiftVersion |-> <<"6",".","0">>],
    [feature |-> <<"P","a","r","a","m","e","t","e","r"," ","p","a","c","k","s">>,
     proposals |-> { <<"S","E","-","0","3","9","3">> },
     swiftVersion |-> <<"5",".","9">>],
    [feature |-> <<"N","o","n","c","o","p","y","a","b","l","e"," ","t","y","p","e","s">>,
     proposals |-> { <<"S","E","-","0","3","9","0">> },
     swiftVersion |-> <<"5",".","9">>],
    [feature |-> <<"i","f","/","s","w","i","t","c","h"," ","e","x","p","r","e","s","s","i","o","n","s">>,
     proposals |-> { <<"S","E","-","0","3","8","0">> },
     swiftVersion |-> <<"5",".","9">>],
    [feature |-> <<"M","a","c","r","o","s">>,
     proposals |-> { <<"S","E","-","0","3","8","2">>, <<"S","E","-","0","3","8","9">> },
     swiftVersion |-> <<"5",".","9">>],
    [feature |-> <<"A","c","t","o","r"," ","i","s","o","l","a","t","i","o","n">>,
     proposals |-> { <<"S","E","-","0","4","1","4">>, <<"S","E","-","0","4","2","0">>, <<"S","E","-","0","4","2","3">> },
     swiftVersion |-> <<"6",".","0">>]
  >>

(***************************************************************************)
(* C20: every feature the activation guide lists as supported is found     *)
(* with the listed proposal and version.  Whatever the target version, the *)
(* lookup of a feature of the guide is fulfilled, is not the no-match      *)
(* template, and lists every proposal the guide names for the feature,     *)
(* each with the Swift version the guide gives.                            *)
(***************************************************************************)
C20_GuideFeaturesAreFound ==
  \A h \in HandlerIds : \A f \in 1..Len(SupportedFeatures) :
    LET rec == handlers[h]
        listed == Listed(rec.promise.value)
    IN  (EvolutionSettled(rec) /\ rec.request.arguments.feature.val = SupportedFeatures[f].feature) =>
          /\ rec.promise.status = "fulfilled"
          /\ ~IsNoMatchReport(rec.promise.value)
          /\ \A id \in SupportedFeatures[f].proposals :
                \E b \in 1..Len(listed) :
                  /\ listed[b].id = id
                  /\ listed[b].swiftVersion = Txt(SupportedFeatures[f].swiftVersion)

\* the lookup of "Actor isolation" has been answered with a report of at
\* least three proposals
C20_Witness ==
  \E h \in HandlerIds :
    /\ EvolutionSettled(handlers[h])
    /\ handlers[h].pc = "done"
    /\ handlers[h].request.arguments.feature.val = SupportedFeatures[8].feature
    /\ ~handlers[h].response.isError
    /\ Len(Listed(handlers[h].response.content[1].text)) >= 3

(***************************************************************************)
(* C21: a rule matches at most once per invocation.  Whatever the number   *)
(* of occurrences of the pattern of a rule in logText, the report has one  *)
(* Finding for the rule when there is an occurrence and none otherwise,    *)
(* and the matched text of the Finding begins at the leftmost occurrence;  *)
(* for two diagnostics of the same kind about different identifiers it is  *)
(* the first diagnostic.                                                   *)
(***************************************************************************)
\* the Findings of the report for rule r
FindingsOf(r) ==
  {f \in 1..Len(Findings(Report)) : Findings(Report)[f].category = ERROR_PATTERNS[r].type}

\* the texts the pattern of rule r matches at its leftmost occurrence in S
LeftmostTexts(r, S) ==
  LET rx == ERROR_PATTERNS[r].pattern
      first == Min(MatchStarts(rx, S))
  IN  {SubSeq(S, first, e - 1) : e \in EndsAt(rx, S, LowerLetters(S), first)}

C21_OneFindingPerRuleAtFirstOccurrence ==
  Analyzed =>
    /\ promise.status = "fulfilled"
    /\ \A r \in Rules :
         IF MatchStarts(ERROR_PATTERNS[r].pattern, logText) = {}
         THEN FindingsOf(r) = {}
         ELSE /\ Cardinality(FindingsOf(r)) = 1
              /\ \A f \in FindingsOf(r) :
                   Findings(Report)[f].matchedText \in LeftmostTexts(r, logText)
    /\ \A k \in { <<>>, TYPE_KEYWORD }, first, second \in { <<"F","o","o">>, <<"b","a","r">> } :
         logText = ScopeMessage(<<>>, k, first) \o NEWLINE \o ScopeMessage(<<>>, k, second) =>
           /\ Len(Findings(Report)) = 1
           /\ Findings(Report)[1].matchedText = ScopeMessage(<<>>, k, first)

\* the pattern of "Symbol Not Found" occurs twice, at 'bar' and then at
\* 'Foo', and the one Finding shows the occurrence at 'bar'
C21_Witness ==
  /\ Analyzed
  /\ logText = ScopeMessage(<<>>, <<>>, <<"b","a","r">>) \o NEWLINE \o ScopeMessage(<<>>, <<>>, <<"F","o","o">>)
  /\ Cardinality(MatchStarts(Pattern_SymbolNotFound, logText)) = 2
  /\ Len(Findings(Report)) = 1
  /\ Findings(Report)[1].category = "Symbol Not Found"
  /\ Findings(Report)[1].matchedText = ScopeMessage(<<>>, <<>>, <<"b","a","r">>)

(***************************************************************************)
(* C22: overlapping matches are not deduplicated.  When the patterns of    *)
(* two rules match texts that overlap, both rules have their Finding, the  *)
(* rule declared first before the other; every rule that matches has a     *)
(* Finding whatever other rules match; and the log "error: main            *)
(* actor-isolated property 'x' can not be mutated from" yields "Actor      *)
(* Isolation Error" and then "Main Actor Isolation".                       *)
(***************************************************************************)
\* the stretches of S the pattern of rule r matches, as pairs of the first
\* position and the position after the last
Stretches(r, S) ==
  LET rx == ERROR_PATTERNS[r].pattern
      LS == LowerLetters(S)
  IN  UNION {{<< i, e >> : e \in EndsAt(rx, S, LS, i)} : i \in MatchStarts(rx, S)}

Overlapping(r, q, S) ==
  \E a \in Stretches(r, S), b \in Stretches(q, S) : a[1] < b[2] /\ b[1] < a[2]

C22_OverlappingRulesBothReport ==
  Analyzed =>
    /\ \A r \in MatchingRules(logText) : FindingsOf(r) # {}
    /\ LET matching == MatchingRules(logText)
       IN  \A r, q \in matching :
             (r < q /\ Overlapping(r, q, logText)) =>
               /\ FindingsOf(r) # {}
               /\ FindingsOf(q) # {}
               /\ \A f \in FindingsOf(r), g \in FindingsOf(q) : f < g
    /\ logText = LineSeq[3] =>
         /\ Len(Findings(Report)) = 2
         /\ Findings(Report)[1].category = "Actor Isolation Error"
         /\ Findings(Report)[2].category = "Main Actor Isolation"

\* the scenario of the claim: the text "Main Actor Isolation" matches lies
\* inside the text "Actor Isolation Error" matches, and both report
C22_Witness ==
  /\ Analyzed
  /\ logText = LineSeq[3]
  /\ \E r, q \in Rules :
       /\ r < q
       /\ ERROR_PATTERNS[r].type = "Actor Isolation Error"
       /\ ERROR_PATTERNS[q].type = "Main Actor Isolation"
       /\ Overlapping(r, q, logText)
  /\ Len(Findings(Report)) = 2
  /\ Findings(Report)[1].category = "Actor Isolation Error"
  /\ Findings(Report)[2].category = "Main Actor Isolation"

(***************************************************************************)
(* C23: when no rule matches, the fallback report is the "No Clear Errors  *)
(* Detected" variant exactly when logText contains neither "error:" nor    *)
(* "warning:" in any letter case, and otherwise the "Build Issues          *)
(* Detected" variant with the raw excerpt; both variants end with the same *)
(* fixed Suggestions list and Common Build Failure Causes list.            *)
(***************************************************************************)
ERROR_COLON == <<"e","r","r","o","r",":">>

WARNING_COLON == <<"w","a","r","n","i","n","g",":">>

HasMarker(S) ==
  includes(toLowerCase(S), ERROR_COLON) \/ includes(toLowerCase(S), WARNING_COLON)

IsNoClearErrorsReport(report) == IsFallbackReport(report) /\ report[2] = NO_CLEAR_ERRORS

\* the last n pieces of a report
Ending(report, n) == SubSeq(report, Len(report) - n + 1, Len(report))

C23_FallbackVariantFollowsMarkers ==
  (Analyzed /\ MatchingRules(logText) = {}) =>
    /\ promise.status = "fulfilled"
    /\ IsFallbackReport(Report)
    /\ IsNoClearErrorsReport(Report) <=> ~HasMarker(logText)
    /\ IsIssuesReport(Report) <=> HasMarker(logText)
    /\ IsIssuesReport(Report) <=> Shows(Report, RAW_LOG)
    /\ IsIssuesReport(Report) =>
         Excerpt(Report) = SubSeq(logText, 1, Min({Len(logText), SLICE_LIMIT}))
    /\ Ending(Report, Len(SuggestionsAndCauses)) = SuggestionsAndCauses
    /\ Shows(Report, Str("## Suggestions\n\n"))
    /\ Shows(Report, Str("## Common Build Failure Causes\n\n"))

\* a log with the marker in capitals that no rule matches gets the "Build
\* Issues Detected" variant with the log as excerpt and the fixed lists
C23_Witness ==
  /\ Analyzed
  /\ logText = <<"E","R","R","O","R",":"," ","B","U","I","L","D"," ","F","A","I","L","E","D">>
  /\ MatchingRules(logText) = {}
  /\ IsIssuesReport(Report)
  /\ Excerpt(Report) = logText
  /\ Ending(Report, Len(SuggestionsAndCauses)) = SuggestionsAndCauses

(***************************************************************************)
(* C24: in the findings report the Finding blocks are numbered 1..N in the *)
(* order the rules are declared, N being the number of Findings and the    *)
(* count of the "Found N Issue(s)" header; a block shows the "Related      *)
(* Documentation" list exactly when its rule has a reference, with one     *)
(* entry per reference; and the fixed General Troubleshooting block ends   *)
(* the report, after the delimiter of the last Finding block.              *)
(***************************************************************************)
\* the rule a Finding of the given category comes from
RuleOf(category) == CHOOSE r \in Rules : ERROR_PATTERNS[r].type = category

\* the positions where the Finding blocks of a report open
BlockOpens(report) == Ascending({p \in 1..Len(report) : report[p] = Str("### ")})

\* the pieces of the f-th Finding block: from its opening up to the next
\* opening, or up to the General Troubleshooting block
Block(report, f) ==
  LET opens == BlockOpens(report)
      last == IF f < Len(opens) THEN opens[f + 1] - 1
              ELSE Len(report) - Len(GeneralTroubleshooting)
  IN  SubSeq(report, opens[f], last)

RELATED_DOCUMENTATION == Str("**Related Documentation:**\n")

DELIMITER == Str("---\n\n")

C24_BlocksAreNumberedInRuleOrder ==
  (Analyzed /\ promise.status = "fulfilled" /\ IsFindingsReport(Report)) =>
    LET findings == Findings(Report)
        N == Len(findings)
    IN  /\ N >= 1
        /\ AnnouncedCount(Report) = N
        /\ \A f \in 1..N : findings[f].number = f
        /\ \A f, g \in 1..N :
             f < g => RuleOf(findings[f].category) < RuleOf(findings[g].category)
        /\ \A f \in 1..N :
             LET block == Block(Report, f)
                 docs == ERROR_PATTERNS[RuleOf(findings[f].category)].docs
             IN  /\ Shows(block, RELATED_DOCUMENTATION) <=> Len(docs) > 0
                 /\ \A d \in 1..Len(docs) : Shows(block, Str(docs[d]))
                 /\ Cardinality({p \in 1..Len(block) : block[p] = Str("- [")}) = Len(docs)
                 /\ block[Len(block)] = DELIMITER
        /\ Ending(Report, Len(GeneralTroubleshooting)) = GeneralTroubleshooting
        /\ \A p \in 1..Len(Report) :
             Report[p] \in {Str("### "), DELIMITER} => p <= Len(Report) - Len(GeneralTroubleshooting)

\* a report of four Findings, numbered 1 to 4, each with its references
C24_Witness ==
  /\ Analyzed
  /\ IsFindingsReport(Report)
  /\ Len(Findings(Report)) = 4
  /\ AnnouncedCount(Report) = 4
  /\ Findings(Report)[4].number = 4
  /\ \A f \in 1..4 : Shows(Block(Report, f), RELATED_DOCUMENTATION)


(***************************************************************************)
(* C25: matching is case-insensitive and unanchored: changing the letter   *)
(* case of logText, or adding text lines before and after it, never        *)
(* removes a rule from the set of rules that fire, and the set of Finding  *)
(* categories for logText and for its upper-cased or lower-cased form are  *)
(* equal.                                                                  *)
(***************************************************************************)
\* the categories of the Findings analyzeBuildLog reports for the text S
CategoriesOf(S) ==
  LET report == analyzeBuildLog(JSString(S), Undefined, Undefined,
                                [r \in Rules |-> 0]).promise.value
  IN  {Findings(report)[f].category : f \in 1..Len(Findings(report))}

\* S with text lines added before it, after it, or both
Surrounded(S) ==
  {before \o S \o after :
     before \in { <<>>, <<"C","o","m","p","i","l","i","n","g"," ","m","a","i","n",".","s","w","i","f","t">> \o NEWLINE },
     after \in { <<>>, NEWLINE \o <<"*","*"," ","B","U","I","L","D"," ","F","A","I","L","E","D"," ","*","*">> }}

\* changing the letter case of the log, or adding lines around it, removes
\* no rule
FoldingNeverRemovesARule ==
  Analyzed =>
    /\ CategoriesOf(logText) \subseteq CategoriesOf(toUpperCase(logText))
    /\ CategoriesOf(logText) \subseteq CategoriesOf(toLowerCase(logText))
    /\ \A T \in Surrounded(logText) : CategoriesOf(logText) \subseteq CategoriesOf(T)

C25_LetterCaseAndSurroundingsKeepTheRules ==
  Analyzed =>
    /\ CategoriesOf(logText) = {Findings(Report)[f].category : f \in 1..Len(Findings(Report))}
    /\ CategoriesOf(toUpperCase(logText)) = CategoriesOf(logText)
    /\ CategoriesOf(toLowerCase(logText)) = CategoriesOf(logText)
    /\ \A T \in Surrounded(logText) : CategoriesOf(logText) \subseteq CategoriesOf(T)


(***************************************************************************)
(* C26: the rule table is immutable configuration: no invocation of        *)
(* analyzeBuildLog, on the findings path or the fallback path, changes it, *)
(* the match position of every pattern included, so a rule fires on a      *)
(* logText in the k-th invocation exactly when it fires in the first.      *)
(* The table is the definition ERROR_PATTERNS, which no action writes; the *)
(* one part of it an invocation could write is the lastIndex of a pattern. *)
(***************************************************************************)
\* the rules whose category a report lists
FiredRules(report) ==
  {r \in Rules :
     \E f \in 1..Len(Findings(report)) : Findings(report)[f].category = ERROR_PATTERNS[r].type}

\* an earlier invocation of the analyzer on the log of the present one
AnalyzedBefore ==
  /\ Analyzed
  /\ ref.set
  /\ ref.request.name = ANALYZER
  /\ ref.request.arguments.buildLog = request.arguments.buildLog

C26_RuleTableIsNeverChanged ==
  /\ \A r \in Rules : lastIndex[r] = 0
  /\ Analyzed =>
       LET first == analyzeBuildLog(request.arguments.buildLog, request.arguments.errorCode,
                                    request.arguments.context, [r \in Rules |-> 0])
       IN  /\ promise = first.promise
           /\ FiredRules(Report) = FiredRules(first.promise.value)
  /\ AnalyzedBefore =>
       /\ ~ref.response.isError
       /\ FiredRules(Report) = FiredRules(ref.response.content[1].text)

\* a later invocation on a log analyzed before, with other annotations, in
\* which rules fire
C26_Witness ==
  /\ AnalyzedBefore
  /\ ref.request # request
  /\ FiredRules(Report) # {}
  /\ FiredRules(Report) = FiredRules(ref.response.content[1].text)
  /\ \A r \in Rules : lastIndex[r] = 0


(***************************************************************************)
(* C27: fetchAppleDocs tries candidate paths in a fixed order: the mapped  *)
(* path of the query (or framework/query when a framework is given and no  *)
(* mapping exists), then the query under each path of the given framework, *)
(* then the query under swiftui, foundation, uikit, observation, swiftdata *)
(* and combine.  It returns the live document of the first candidate whose *)
(* fetch succeeds and issues no further request after it; it returns the   *)
(* not-found text only after every candidate has failed.                   *)
(***************************************************************************)
\* the candidate paths in the order stated, for a string query
CandidatePaths(query, framework) ==
  LET name == normalize(query)
      own(key) == Lookup(API_MAPPINGS, key).found = "own"
      known(key) == Lookup(API_MAPPINGS, key).found # "no"
      given == Truthy(framework)
      first == IF own(name) THEN << Lookup(API_MAPPINGS, name).row.path >>
               ELSE IF known(name) THEN <<>>
               ELSE IF own(AT_SIGN \o name) THEN << Lookup(API_MAPPINGS, AT_SIGN \o name).row.path >>
               ELSE IF known(AT_SIGN \o name) THEN <<>>
               ELSE IF given THEN << toLowerCase(framework.val) \o SLASH \o name >>
               ELSE <<>>
      paths == IF given /\ Lookup(FRAMEWORK_PATHS, toLowerCase(framework.val)).found = "own"
               THEN Lookup(FRAMEWORK_PATHS, toLowerCase(framework.val)).row.paths
               ELSE <<>>
      common == << <<"s","w","i","f","t","u","i">>, <<"f","o","u","n","d","a","t","i","o","n">>, <<"u","i","k","i","t">>, <<"o","b","s","e","r","v","a","t","i","o","n">>, <<"s","w","i","f","t","d","a","t","a">>, <<"c","o","m","b","i","n","e">> >>
  IN  first
      \o [i \in 1..Len(paths) |-> paths[i] \o SLASH \o name]
      \o [i \in 1..Len(common) |-> common[i] \o SLASH \o name]

CandidateUrls(query, framework) ==
  LET paths == CandidatePaths(query, framework)
  IN  [i \in 1..Len(paths) |-> DocUrl(paths[i])]

\* an invocation of fetchAppleDocs on a string query that has begun
Fetching(rec) ==
  /\ rec.request.name = FETCHER
  /\ IsString(rec.request.arguments.query)
  /\ rec.pc # "received"

\* the requests made so far are the first candidates in order; a request is
\* under way only while no document has come; a document that has come is
\* the answer to the last request and is what the invocation returns; the
\* not-found text is returned with every candidate requested and no document
CandidatesInOrder ==
  \A h \in HandlerIds :
    LET rec == handlers[h]
        args == rec.request.arguments
        urls == CandidateUrls(args.query.val, args.framework)
        n == Len(rec.requested)
    IN  Fetching(rec) =>
          /\ n <= Len(urls)
          /\ rec.requested = SubSeq(urls, 1, n)
          /\ rec.pc \in {"fetching", "parsing"} => rec.liveDoc.kind = "null"
          /\ rec.liveDoc.kind = "object" =>
                /\ n >= 1
                /\ rec.pc \in {"awaiting", "done"}
                /\ rec.promise =
                     Fulfilled(formatLiveDoc(rec.liveDoc, args.query.val, args.includeExamples).text)
          /\ (rec.pc \in {"awaiting", "done"}
              /\ rec.promise.value = formatNotFound(args.query.val, args.framework)) =>
                /\ n = Len(urls)
                /\ rec.liveDoc.kind = "null"

\* once a document has come, or the invocation has settled, no request
\* follows
NoRequestAfterTheDocument ==
  \A h \in HandlerIds :
    (handlers[h].liveDoc.kind # "null" \/ handlers[h].pc \in {"awaiting", "done"}) =>
      handlers'[h].requested = handlers[h].requested

AllCandidatesFailed ==
  \E h \in HandlerIds :
    LET rec == handlers[h]
        args == rec.request.arguments
    IN  /\ Fetching(rec)
        /\ rec.pc = "done"
        /\ Len(rec.requested) = 9
        /\ rec.promise.value = formatNotFound(args.query.val, args.framework)


(***************************************************************************)
(* C28: version compatibility is compared numerically on (major, minor).   *)
(* For dotted numeric versions, a missing minor read as 0 and a third      *)
(* component ignored, a matched proposal is reported "Available in Swift   *)
(* <target>" if and only if the target major is greater than the required  *)
(* major, or the majors are equal and the target minor is at least the     *)
(* required minor; otherwise it is reported as requiring the version of    *)
(* the proposal.  Target 5.10 satisfies a 5.9 and a 5.10 requirement, and  *)
(* target 5.9 does not satisfy 5.10.                                       *)
(***************************************************************************)
\* the runs of characters between the dots of v
RECURSIVE Components(_)
Components(v) ==
  IF \A i \in 1..Len(v) : v[i] # "."
  THEN << v >>
  ELSE LET dot == CHOOSE i \in 1..Len(v) : v[i] = "." /\ \A j \in 1..(i - 1) : v[j] # "."
       IN  << SubSeq(v, 1, dot - 1) >> \o Components(SubSeq(v, dot + 1, Len(v)))

\* v is made of runs of digits with dots between them
DottedNumeric(v) ==
  \A c \in 1..Len(Components(v)) :
    /\ Len(Components(v)[c]) > 0
    /\ \A i \in 1..Len(Components(v)[c]) : Components(v)[c][i] \in DigitChars

Major(v) == DecimalValue(Components(v)[1])

Minor(v) == IF Len(Components(v)) >= 2 THEN DecimalValue(Components(v)[2]) ELSE 0

Satisfies(target, required) ==
  \/ Major(target) > Major(required)
  \/ Major(target) = Major(required) /\ Minor(target) >= Minor(required)

AVAILABLE_IN == Str("(check mark) **Available in Swift ")

REQUIRES == Str("(warning sign) **Requires Swift ")

\* what follows the summary of each proposal a report lists: the version
\* row of the block and the three pieces of its compatibility line
Verdicts(report) ==
  LET opens == Ascending({p \in 1..Len(report) : report[p] = Str("### ")})
  IN  [b \in 1..Len(opens) |->
         [required |-> report[opens[b] + 13],
          line     |-> SubSeq(report, opens[b] + 23, opens[b] + 27)]]

C28_CompatibilityIsNumericOnMajorMinor ==
  /\ compareVersions(<<"5",".","1","0">>, <<"5",".","9">>)
  /\ compareVersions(<<"5",".","1","0">>, <<"5",".","1","0">>)
  /\ ~compareVersions(<<"5",".","9">>, <<"5",".","1","0">>)
  /\ \A h \in HandlerIds :
       LET rec == handlers[h]
           target == rec.request.arguments.swiftVersion
       IN  (/\ EvolutionSettled(rec)
            /\ rec.promise.status = "fulfilled"
            /\ IsString(target)
            /\ DottedNumeric(target.val)) =>
             \A b \in 1..Len(Verdicts(rec.promise.value)) :
               LET verdict == Verdicts(rec.promise.value)[b]
               IN  (verdict.required # Str("N/A") /\ DottedNumeric(verdict.required.txt)) =>
                     IF Satisfies(target.val, verdict.required.txt)
                     THEN SubSeq(verdict.line, 1, 3)
                            = << AVAILABLE_IN, Txt(target.val), Str("**\n\n") >>
                     ELSE verdict.line
                            = << REQUIRES, verdict.required, Str("** (you specified "),
                                 Txt(target.val), Str(")\n\n") >>

\* a lookup with target 5.10 that lists a proposal of Swift 5.9 as available
\* and no proposal as requiring another version
C28_Witness ==
  \E h \in HandlerIds :
    LET rec == handlers[h]
        verdicts == Verdicts(rec.promise.value)
    IN  /\ EvolutionSettled(rec)
        /\ rec.pc = "done"
        /\ rec.promise.status = "fulfilled"
        /\ rec.request.arguments.swiftVersion = JSString(<<"5",".","1","0">>)
        /\ \E b \in 1..Len(verdicts) :
             /\ verdicts[b].required = Txt(<<"5",".","9">>)
             /\ verdicts[b].line[1] = AVAILABLE_IN
        /\ \A b \in 1..Len(verdicts) : verdicts[b].line[1] # REQUIRES

\* a lookup with target 5.9 that lists a proposal of Swift 5.10 as requiring
\* 5.10
TargetBelowRequirement ==
  \E h \in HandlerIds :
    LET rec == handlers[h]
        verdicts == Verdicts(rec.promise.value)
    IN  /\ EvolutionSettled(rec)
        /\ rec.promise.status = "fulfilled"
        /\ rec.request.arguments.swiftVersion = JSString(<<"5",".","9">>)
        /\ \E b \in 1..Len(verdicts) :
             /\ verdicts[b].required = Txt(<<"5",".","1","0">>)
             /\ verdicts[b].line[1] = REQUIRES


(***************************************************************************)
(* C29: a call naming a tool other than fetch_latest_apple_docs,           *)
(* xcode_diagnostic_analyzer or swift_evolution_check invokes none of the  *)
(* three tools and returns exactly one response, with the error flag set   *)
(* and the text "Unknown tool: <name>"; a call naming one of the three     *)
(* invokes only that tool.                                                 *)
(***************************************************************************)
\* the invocation rec shows no trace of a tool: no promise, no request
NoToolInvoked(rec) ==
  /\ rec.promise = NoPromise
  /\ rec.requested = <<>>
  /\ rec.position = 0
  /\ rec.liveDoc = NoDoc

UnknownToolResponse(name) ==
  [content |-> << [type |-> "text", text |-> << Str("Unknown tool: "), Str(name) >>] >>,
   isError |-> TRUE]

\* the invocation rec has gone past the switch of the handler
Dispatched(rec) == rec.pc \notin {"idle", "received"}

C29_UnknownToolIsRefusedAndNamedToolRunsAlone ==
  /\ \A r \in Rules : lastIndex[r] = 0
  /\ \A h \in HandlerIds :
       LET rec == handlers[h]
           name == rec.request.name
           args == rec.request.arguments
       IN  /\ rec.responses <= 1
           /\ rec.pc # "done" => rec.responses = 0
           /\ (Dispatched(rec)
               /\ name \notin { "fetch_latest_apple_docs", "xcode_diagnostic_analyzer",
                                "swift_evolution_check" }) =>
                 /\ rec.pc = "done"
                 /\ rec.responses = 1
                 /\ rec.response = UnknownToolResponse(name)
                 /\ NoToolInvoked(rec)
           /\ (Dispatched(rec) /\ name = "xcode_diagnostic_analyzer") =>
                 /\ rec.promise = analyzeBuildLog(args.buildLog, args.errorCode, args.context,
                                                  [r \in Rules |-> 0]).promise
                 /\ rec.requested = <<>>
           /\ (Dispatched(rec) /\ name = "swift_evolution_check") =>
                 /\ rec.promise = checkSwiftEvolution(args.feature, args.swiftVersion)
                 /\ rec.requested = <<>>
           /\ (Dispatched(rec) /\ name = "fetch_latest_apple_docs") =>
                 /\ rec.requested # <<>> \/ rec.promise # NoPromise
                 /\ rec.pc \in {"awaiting", "done"} =>
                       \/ rec.promise.status = "rejected" /\ ~IsString(args.query)
                       \/ rec.promise.status = "fulfilled" /\ IsString(args.query)
           /\ (rec.pc = "done" /\ name \in { "fetch_latest_apple_docs", "xcode_diagnostic_analyzer",
                                             "swift_evolution_check" }) =>
                 /\ rec.response = Reply(name, rec.promise)
                 /\ rec.response # UnknownToolResponse(name)

\* a call that names swift_evolution_check in other letter case is refused
C29_Witness ==
  \E h \in HandlerIds :
    /\ handlers[h].pc = "done"
    /\ handlers[h].request.name = "Swift_Evolution_Check"
    /\ handlers[h].responses = 1
    /\ handlers[h].response.isError
    /\ handlers[h].response.content[1].text
         = << Str("Unknown tool: "), Str("Swift_Evolution_Check") >>
    /\ NoToolInvoked(handlers[h])


(***************************************************************************)
(* C30: the proposal search is a two-way case-insensitive substring filter *)
(* that keeps table order.  A proposal is listed if and only if some       *)
(* keyword is contained in the feature text or contains it, or the title   *)
(* contains the feature text, or the id equals it; the listed proposals    *)
(* appear in the order of the fixed table and the "Found N Related         *)
(* Proposal(s)" count equals their number.  The empty feature string       *)
(* matches every proposal of the table and never yields the no-match       *)
(* template.                                                               *)
(***************************************************************************)
\* the text T holds the text part, letter case aside
Holds(T, part) ==
  LET t == toLowerCase(T)
      p == toLowerCase(part)
  IN  \E from \in 0..(Len(t) - Len(p)) : SubSeq(t, from + 1, from + Len(p)) = p

\* the rows of the table the claim lists for the feature, in table order
RowsToList(feature) ==
  Ascending({i \in 1..Len(SWIFT_EVOLUTION_DB) :
               LET row == SWIFT_EVOLUTION_DB[i]
               IN  \/ \E k \in 1..Len(row.keywords) :
                        Holds(feature, row.keywords[k]) \/ Holds(row.keywords[k], feature)
                   \/ Holds(row.title, feature)
                   \/ toLowerCase(row.id) = toLowerCase(feature)})

\* the number a report of proposals announces
FoundCount(report) ==
  LET at == {p \in 1..Len(report) : report[p] = Str("## Found ")}
  IN  IF at = {} THEN Num(0) ELSE report[Min(at) + 1]

C30_SearchIsTwoWayFilterInTableOrder ==
  \A h \in HandlerIds :
    LET rec == handlers[h]
        feature == rec.request.arguments.feature.val
        rows == RowsToList(feature)
        report == rec.promise.value
    IN  (EvolutionSettled(rec) /\ rec.promise.status = "fulfilled") =>
          /\ [b \in 1..Len(Listed(report)) |-> Listed(report)[b].id]
               = [b \in 1..Len(rows) |-> SWIFT_EVOLUTION_DB[rows[b]].id]
          /\ FoundCount(report) = Num(Len(rows))
          /\ rows # <<>> => ~IsNoMatchReport(report)
          /\ rows # <<>> => report[Len(report) - 3] = Str("## Resources\n\n")
          /\ feature = <<>> =>
                /\ Len(Listed(report)) = Len(SWIFT_EVOLUTION_DB)
                /\ ~IsNoMatchReport(report)

\* the empty feature lists the whole table
C30_Witness ==
  \E h \in HandlerIds :
    LET rec == handlers[h]
    IN  /\ EvolutionSettled(rec)
        /\ rec.pc = "done"
        /\ rec.promise.status = "fulfilled"
        /\ rec.request.arguments.feature = JSString(<<>>)
        /\ FoundCount(rec.promise.value) = Num(Len(SWIFT_EVOLUTION_DB))
        /\ Len(Listed(rec.promise.value)) = Len(SWIFT_EVOLUTION_DB)
        /\ Len(SWIFT_EVOLUTION_DB) > 1

\* a feature that is a fragment of keywords lists their proposals
FragmentOfKeywordIsFound ==
  \E h \in HandlerIds :
    LET rec == handlers[h]
    IN  /\ EvolutionSettled(rec)
        /\ rec.promise.status = "fulfilled"
        /\ rec.request.arguments.feature = JSString(<<"S","e","n","d","a","b">>)
        /\ Len(Listed(rec.promise.value)) >= 1

====
